---- MODULE Spec2Model ----
(***************************************************************************)
(* Command orchestration core of sonz.AI: idempotent bot-command intake,   *)
(* tournament persist-then-sync orchestration, analytics sessions, the     *)
(* provider-first commands (battles, groups, leaderboard) and the          *)
(* Tournament and Participant aggregates.                                  *)
(*                                                                         *)
(* The bounded contexts share no state (each service is constructed over   *)
(* its own repository and provider), so each context has a specification   *)
(* of its own (SpecBot, SpecTourn, SpecSession, SpecCmd); SpecSync runs the *)
(* tournament and the session service side by side for the properties      *)
(* that range over both, SpecSeq runs every service for one caller, and    *)
(* SpecAgg puts the aggregates under their methods with no service running.*)
(* SpecEnt does the same for Battle, Session, Command, Group and the       *)
(* PlayerAccount (with the auth service over the player repository),       *)
(* SpecNew applies the Tournament constructor to its arguments, and        *)
(* SpecStore runs the tournament service with End and Reset applied to the *)
(* stored tournaments.                                                     *)
(***************************************************************************)
EXTENDS Integers, Sequences, FiniteSets, TLC

VARIABLES
    botWired,     \* bot Service fields: which of Producer and Notifier are non-nil
    botReserved,  \* bot repository: idempotency keys reserved so far
    botStore,     \* bot repository: the command record held for each idempotency key
    botQueue,     \* worker queue: keys of the commands Producer.Enqueue accepted
    botSaved,     \* history: <<key, command id>> of every successful Repo.Save
    botEnq,       \* history: number of Producer.Enqueue invocations per key
    botAccepted,  \* history: keys for which a Handle call has returned Accepted=true
    botCalls,     \* history: number of Handle calls started
    handle,       \* per caller: the Handle call in progress
    tRepo,        \* tournament repository: the tournament stored under each id
    pHeap,        \* the Participant objects allocated so far (repositories hold pointers)
    pRepo,        \* participant repository: the object stored under each key (0: none)
    provTourn,    \* provider: the parameters of the tournaments created externally
    provAttempts, \* provider: attempts accepted per participant key
    sHeap,        \* the Session objects allocated so far
    sRepo,        \* session repository: the object stored for each user (0: none)
    call,         \* per caller: the service call in progress
    calls,        \* history: number of service calls started
    provMatches,  \* match provider: the matches created externally, in order
    bRepo,        \* battle repository: the battle stored under each id
    provGroups,   \* group provider: <<name, creator>> of the groups created externally
    gRepo,        \* group repository: the group stored under each id
    lbRepo,       \* leaderboard repository: the submissions accepted
    tourn,        \* a Tournament aggregate under End and Reset
    part,         \* a Participant aggregate under AddAttempts and ResetAttempts
    last,         \* the last method called on an aggregate, its result and the value before
    battle,       \* a Battle aggregate under AddPlayer and MarkReady
    sess,         \* a Session aggregate under End
    acct,         \* the PlayerAccount the player repository holds, under its methods
    command,      \* a bot Command aggregate under MarkAttempt
    group         \* a Group aggregate under AssignRole

botVars == <<botWired, botReserved, botStore, botQueue, botSaved, botEnq,
             botAccepted, botCalls, handle>>

tournVars == <<tRepo, pHeap, pRepo, provTourn, provAttempts>>

sessVars == <<sHeap, sRepo>>

cmdVars == <<provMatches, bRepo, provGroups, gRepo, lbRepo>>

entVars == <<battle, sess, acct, command, group>>

aggVars == <<tourn, part, last, entVars>>

----------------------------------------------------------------------------
(* Bounds *)

MaxClock == 2
MaxCalls == 2
MaxAttempts == 4

\* the readings of an injected Clock: time as an integer, 0 the zero time
Times == 1..MaxClock

----------------------------------------------------------------------------
(* shared: identifiers and errors *)

\* strings.TrimSpace(string(id)) == "": the blank identifiers of the model
Blank(id) == id \in {"", " "}

ErrNone == "nil"
ErrDuplicate == "duplicate operation"
ErrNotFound == "entity not found"
ErrRepo == "repository unavailable"
ErrNotify == "notify failed"
ErrQueue == "queue down"
ErrBotCommandID == "bot command id is required"
ErrIdempotencyKey == "idempotency key is required"

BotCommandIDValidate(id) == IF Blank(id) THEN ErrBotCommandID ELSE ErrNone

IdempotencyKeyValidate(key) == IF Blank(key) THEN ErrIdempotencyKey ELSE ErrNone

----------------------------------------------------------------------------
(* bot domain: Command aggregate *)

CommandStatePending == "pending"
CommandStateCompleted == "completed"
CommandStateFailed == "failed"

NoCommand == [ID |-> "-", State |-> "none"]

\* NewCommand: <<command, error>>
NewCommand(id, key, now) ==
    IF BotCommandIDValidate(id) # ErrNone
    THEN <<NoCommand, BotCommandIDValidate(id)>>
    ELSE IF IdempotencyKeyValidate(key) # ErrNone
    THEN <<NoCommand, IdempotencyKeyValidate(key)>>
    ELSE <<[ID |-> id, IdempotencyKey |-> key, State |-> CommandStatePending,
            AttemptedAt |-> 0, CompletedAt |-> 0, RetryCount |-> 0,
            LastError |-> "", CreatedAt |-> now], ErrNone>>

\* Command.MarkAttempt(now, err)
MarkAttempt(c, now, err) ==
    IF err # ErrNone
    THEN [c EXCEPT !.AttemptedAt = now, !.RetryCount = @ + 1,
                   !.State = CommandStateFailed, !.LastError = err]
    ELSE [c EXCEPT !.AttemptedAt = now, !.State = CommandStateCompleted,
                   !.CompletedAt = now, !.LastError = ""]

----------------------------------------------------------------------------
(* bot repository (the contract of section 4.3: atomic reserve-or-fetch) *)

BotKeys == {"", "k1"}
BotIds == {"", "b1", "b2"}
BotPlayers == {"", "p1"}
Callers == {"c1", "c2"}

\* the command a reserved key answers with before its record is saved
Placeholder(key) ==
    [ID |-> "-", IdempotencyKey |-> key, State |-> CommandStatePending,
     AttemptedAt |-> 0, CompletedAt |-> 0, RetryCount |-> 0,
     LastError |-> "", CreatedAt |-> 0]

\* ReserveCommand(key): <<existing command, error>>; ErrNotFound reserves the key
ReserveCommand(key) ==
    IF botStore[key] # NoCommand THEN <<botStore[key], ErrNone>>
    ELSE IF key \in botReserved THEN <<Placeholder(key), ErrNone>>
    ELSE <<NoCommand, ErrNotFound>>

ReservedAfter(key, err) ==
    IF err = ErrNotFound THEN botReserved \cup {key} ELSE botReserved

\* Save(command): the record of the command's idempotency key
StoreAfterSave(cmd) == [botStore EXCEPT ![cmd.IdempotencyKey] = cmd]

----------------------------------------------------------------------------
(* bot application service: Service.Handle *)

IdleCall ==
    [pc |-> "idle", CommandID |-> "", PlayerID |-> "", IdempotencyKey |-> "",
     now |-> 0, cmd |-> NoCommand, path |-> "none", seen |-> "none",
     nSave |-> 0, nEnq |-> 0, nNotify |-> 0, savedOk |-> FALSE,
     Accepted |-> FALSE, err |-> ErrNone, enqErr |-> ErrNone,
     notifyErr |-> ErrNone, afterAccepted |-> FALSE]

\* the branch Handle takes on the answer of ReserveCommand
BranchIgnoringDuplicate(existing, err) ==
    IF err = ErrNone
    THEN IF existing.State = CommandStateCompleted THEN "accepted" ELSE "fresh"
    ELSE IF err = ErrNotFound THEN "fresh" ELSE "error"

BranchAcceptingExisting(existing, err) ==
    IF err = ErrNone THEN "accepted"
    ELSE IF err = ErrNotFound THEN "fresh" ELSE "error"

BranchRejectingCompleted(existing, err) ==
    IF err = ErrNone THEN "duplicate"
    ELSE IF err = ErrNotFound THEN "fresh" ELSE "error"

BranchEnqueueingCompleted(existing, err) ==
    IF err = ErrNone
    THEN IF existing.State = CommandStateCompleted THEN "fresh" ELSE "duplicate"
    ELSE IF err = ErrNotFound THEN "fresh" ELSE "error"

HandleBranch(existing, err) ==
    IF err = ErrNone
    THEN IF existing.State = CommandStateCompleted THEN "accepted" ELSE "duplicate"
    ELSE IF err = ErrNotFound THEN "fresh" ELSE "error"

\* a Handle call returns: its result is recorded and the caller is at "done"
Returned(h, accepted, err) ==
    [h EXCEPT !.pc = "done", !.Accepted = accepted, !.err = err]

AcceptedAfter(h, accepted) ==
    IF accepted THEN botAccepted \cup {h.IdempotencyKey} ELSE botAccepted

\* now := s.Clock(); s.Repo.ReserveCommand(ctx, input.IdempotencyKey) and its branches
HandleReserve(c) ==
    /\ handle[c].pc = "idle"
    /\ botCalls < MaxCalls
    /\ \E id \in BotIds, key \in BotKeys, player \in BotPlayers, repoUp \in BOOLEAN,
          t \in Times :
         LET res == IF repoUp THEN ReserveCommand(key) ELSE <<NoCommand, ErrRepo>>
             br == HandleBranch(res[1], res[2])
             h0 == [IdleCall EXCEPT !.CommandID = id, !.PlayerID = player,
                                    !.IdempotencyKey = key, !.now = t,
                                    !.afterAccepted = (key \in botAccepted),
                                    !.path = br,
                                    !.seen = IF res[2] = ErrNone THEN res[1].State ELSE "none"]
             h1 == CASE br = "accepted" -> Returned(h0, TRUE, ErrNone)
                      [] br = "duplicate" -> Returned(h0, FALSE, ErrDuplicate)
                      [] br = "error" -> Returned(h0, FALSE, res[2])
                      [] OTHER -> [h0 EXCEPT !.pc = "save"]
         IN /\ botReserved' = ReservedAfter(key, res[2])
            /\ handle' = [handle EXCEPT ![c] = h1]
            /\ botAccepted' = AcceptedAfter(h1, h1.pc = "done" /\ h1.Accepted)
    /\ botCalls' = botCalls + 1
    /\ UNCHANGED <<aggVars, cmdVars, tournVars, sessVars, call, calls, botWired, botStore, botQueue, botSaved, botEnq>>

SaveFailedIgnored(h, cmd) ==
    [h EXCEPT !.pc = "enqueue", !.cmd = cmd, !.nSave = @ + 1]

\* if err := s.Repo.Save(ctx, cmd); err != nil { return CommandResult{}, err }
SaveFailed(h, cmd) ==
    Returned([h EXCEPT !.cmd = cmd, !.nSave = @ + 1], FALSE, ErrRepo)

\* domain.NewCommand(...) and the first s.Repo.Save(ctx, cmd)
HandleSave(c) ==
    /\ handle[c].pc = "save"
    /\ LET h == handle[c]
           nc == NewCommand(h.CommandID, h.IdempotencyKey, h.now)
       IN IF nc[2] # ErrNone
          THEN /\ handle' = [handle EXCEPT ![c] = Returned(h, FALSE, nc[2])]
               /\ UNCHANGED <<botStore, botSaved>>
          ELSE \E saveOk \in BOOLEAN :
                 IF saveOk
                 THEN /\ botStore' = StoreAfterSave(nc[1])
                      /\ botSaved' = botSaved \cup {<<h.IdempotencyKey, h.CommandID>>}
                      /\ handle' = [handle EXCEPT ![c] =
                            [h EXCEPT !.pc = "enqueue", !.cmd = nc[1],
                                      !.nSave = @ + 1, !.savedOk = TRUE]]
                 ELSE /\ handle' = [handle EXCEPT ![c] = SaveFailed(h, nc[1])]
                      /\ UNCHANGED <<botStore, botSaved>>
    /\ UNCHANGED <<aggVars, cmdVars, tournVars, sessVars, call, calls, botWired, botReserved, botQueue, botEnq, botAccepted, botCalls>>

\* if s.Producer != nil { s.Producer.Enqueue(ctx, cmd) }; on error cmd.MarkAttempt(now, err)
HandleEnqueue(c) ==
    /\ handle[c].pc = "enqueue"
    /\ LET h == handle[c] IN
         IF ~botWired.producer
         THEN /\ handle' = [handle EXCEPT ![c] = [h EXCEPT !.pc = "notify"]]
              /\ UNCHANGED <<botQueue, botEnq>>
         ELSE /\ botEnq' = [botEnq EXCEPT ![h.IdempotencyKey] = @ + 1]
              /\ \E enqOk \in BOOLEAN :
                   IF enqOk
                   THEN /\ botQueue' = botQueue \cup {h.IdempotencyKey}
                        /\ handle' = [handle EXCEPT ![c] =
                              [h EXCEPT !.pc = "notify", !.nEnq = @ + 1]]
                   ELSE /\ UNCHANGED botQueue
                        /\ handle' = [handle EXCEPT ![c] =
                              [h EXCEPT !.pc = "resave", !.nEnq = @ + 1,
                                        !.enqErr = ErrQueue,
                                        !.cmd = MarkAttempt(h.cmd, h.now, ErrQueue)]]
    /\ UNCHANGED <<aggVars, cmdVars, tournVars, sessVars, call, calls, botWired, botReserved, botStore, botSaved, botAccepted, botCalls>>

\* _ = s.Repo.Save(ctx, cmd); return CommandResult{}, err
HandleSaveFailed(c) ==
    /\ handle[c].pc = "resave"
    /\ LET h == handle[c] IN
         /\ \E saveOk \in BOOLEAN :
              /\ botStore' = IF saveOk THEN StoreAfterSave(h.cmd) ELSE botStore
              /\ botSaved' = IF saveOk
                             THEN botSaved \cup {<<h.IdempotencyKey, h.CommandID>>}
                             ELSE botSaved
         /\ handle' = [handle EXCEPT ![c] =
               Returned([h EXCEPT !.nSave = @ + 1], FALSE, h.enqErr)]
    /\ UNCHANGED <<aggVars, cmdVars, tournVars, sessVars, call, calls, botWired, botReserved, botQueue, botEnq, botAccepted, botCalls>>

NotifiedAnonymous(h) == botWired.notifier

\* if s.Notifier != nil && input.PlayerID != ""
Notified(h) == botWired.notifier /\ h.PlayerID # ""

\* { _ = s.Notifier.Notify(...) }; return CommandResult{Accepted: true}, nil
HandleNotify(c) ==
    /\ handle[c].pc = "notify"
    /\ LET h == handle[c] IN
         IF Notified(h)
         THEN \E notifyOk \in BOOLEAN :
                LET h1 == Returned([h EXCEPT !.nNotify = @ + 1,
                                             !.notifyErr = IF notifyOk THEN ErrNone
                                                           ELSE ErrNotify],
                                   TRUE, ErrNone)
                IN /\ handle' = [handle EXCEPT ![c] = h1]
                   /\ botAccepted' = AcceptedAfter(h1, TRUE)
         ELSE /\ handle' = [handle EXCEPT ![c] = Returned(h, TRUE, ErrNone)]
              /\ botAccepted' = AcceptedAfter(Returned(h, TRUE, ErrNone), TRUE)
    /\ UNCHANGED <<aggVars, cmdVars, tournVars, sessVars, call, calls, botWired, botReserved, botStore, botQueue, botSaved,
                   botEnq, botCalls>>

\* the caller has its result; it may call again
HandleReturn(c) ==
    /\ handle[c].pc = "done"
    /\ handle' = [handle EXCEPT ![c] = IdleCall]
    /\ UNCHANGED <<aggVars, cmdVars, tournVars, sessVars, call, calls, botWired, botReserved, botStore, botQueue, botSaved,
                   botEnq, botAccepted, botCalls>>

\* the worker takes an enqueued command and reports it: Repository.MarkProcessed(id, state)
MarkProcessed(key, state) ==
    /\ key \in botQueue
    /\ botStore[key] # NoCommand
    /\ botStore[key].State # state
    /\ botStore' = [botStore EXCEPT ![key].State = state]
    /\ UNCHANGED <<aggVars, cmdVars, tournVars, sessVars, call, calls, botWired, botReserved, botQueue, botSaved, botEnq,
                   botAccepted, botCalls, handle>>

----------------------------------------------------------------------------
(* tournament domain: Tournament and Participant aggregates *)

ErrTournamentID == "tournament id is required"
ErrPlayerID == "player id is required"
ErrTitle == "title is required"
ErrCategory == "category must be non-negative"
ErrMaxSize == "max size must be non-negative"
ErrMaxNumScore == "max num score must be non-negative"
ErrStartTime == "start time is required"
ErrDuration == "duration must be non-negative"
ErrParticipantNotFound == "participant not found"
ErrInvalidAttemptCount == "invalid attempt count"
ErrAttemptCount == "attempt count must be positive"
ErrJoinedTime == "joined time is required"
ErrProvider == "provider failed"
ErrCancelled == "context canceled"

StateActive == "active"
StateEnded == "ended"
StateReset == "reset"

TournamentIDValidate(id) == IF Blank(id) THEN ErrTournamentID ELSE ErrNone

PlayerIDValidate(id) == IF Blank(id) THEN ErrPlayerID ELSE ErrNone

NoTournament == [ID |-> "-", State |-> "none"]

\* NewTournament(...): <<tournament, error>>; EndTime 0 is the nil end time
NewTournament(cmd, now) ==
    LET err == IF TournamentIDValidate(cmd.ID) # ErrNone THEN TournamentIDValidate(cmd.ID)
               ELSE IF cmd.Title = "" THEN ErrTitle
               ELSE IF cmd.Category < 0 THEN ErrCategory
               ELSE IF cmd.MaxSize < 0 THEN ErrMaxSize
               ELSE IF cmd.MaxNumScore < 0 THEN ErrMaxNumScore
               ELSE IF cmd.StartTime = 0 THEN ErrStartTime
               ELSE IF cmd.Duration < 0 THEN ErrDuration
               ELSE ErrNone
    IN IF err # ErrNone THEN <<NoTournament, err>>
       ELSE <<[ID |-> cmd.ID, Title |-> cmd.Title, Description |-> cmd.Description,
               Category |-> cmd.Category, SortOrder |-> cmd.SortOrder,
               Operator |-> cmd.Operator, ResetSchedule |-> cmd.ResetSchedule,
               Authoritative |-> cmd.Authoritative, JoinRequired |-> cmd.JoinRequired,
               MaxSize |-> cmd.MaxSize, MaxNumScore |-> cmd.MaxNumScore,
               StartTime |-> cmd.StartTime, EndTime |-> 0, Duration |-> cmd.Duration,
               State |-> StateActive, CreatedAt |-> now, UpdatedAt |-> now], ErrNone>>

NoParticipant == [TournamentID |-> "-", PlayerID |-> "-", Attempts |-> 0,
                  JoinedAt |-> 0, UpdatedAt |-> 0]

\* NewParticipant(tournamentID, playerID, joinedAt): <<participant, error>>
NewParticipant(tid, pid, joinedAt) ==
    IF TournamentIDValidate(tid) # ErrNone THEN <<NoParticipant, TournamentIDValidate(tid)>>
    ELSE IF PlayerIDValidate(pid) # ErrNone THEN <<NoParticipant, PlayerIDValidate(pid)>>
    ELSE IF joinedAt = 0 THEN <<NoParticipant, ErrJoinedTime>>
    ELSE <<[TournamentID |-> tid, PlayerID |-> pid, Attempts |-> 0,
            JoinedAt |-> joinedAt, UpdatedAt |-> joinedAt], ErrNone>>

AddAttemptsOverwriting(p, count, now) ==
    IF count <= 0 THEN <<p, ErrAttemptCount>>
    ELSE <<[p EXCEPT !.Attempts = count, !.UpdatedAt = now], ErrNone>>

AddAttemptsUnchecked(p, count, now) ==
    <<[p EXCEPT !.Attempts = @ + count, !.UpdatedAt = now], ErrNone>>

\* Participant.AddAttempts(count, now): <<participant, error>>
AddAttempts(p, count, now) ==
    IF count <= 0 THEN <<p, ErrAttemptCount>>
    ELSE <<[p EXCEPT !.Attempts = @ + count, !.UpdatedAt = now], ErrNone>>

----------------------------------------------------------------------------
(* tournament application service: commands and provider parameters *)

\* time is counted in half seconds; time.Time.Unix() and Duration.Seconds()
\* truncated to int give whole seconds
Unix(t) == t \div 2

Seconds(d) == d \div 2

BaseCmd ==
    [ID |-> "t1", Title |-> "Cup", Description |-> "weekly", Category |-> 1,
     SortOrder |-> "desc", Operator |-> "best", ResetSchedule |-> "0 0 * * 1",
     Authoritative |-> TRUE, JoinRequired |-> FALSE, MaxSize |-> 10, MaxNumScore |-> 3,
     StartTime |-> 3, EndTime |-> 0, Duration |-> 4]

\* the CreateTournamentCommand values of the model: a valid command, the same
\* with a duration of zero or with an end time, and one command per validation rule
TournCmds ==
    { BaseCmd,
      [BaseCmd EXCEPT !.Duration = 0],
      [BaseCmd EXCEPT !.EndTime = 9],
      [BaseCmd EXCEPT !.ID = ""],
      [BaseCmd EXCEPT !.Title = ""],
      [BaseCmd EXCEPT !.Category = -1],
      [BaseCmd EXCEPT !.MaxSize = -1],
      [BaseCmd EXCEPT !.MaxNumScore = -1],
      [BaseCmd EXCEPT !.StartTime = 0],
      [BaseCmd EXCEPT !.Duration = -1] }

TournIds == {"", "t1"}
PlayerIds == {"", "p1"}
AttemptCounts == {0, 1, 2}
PKeys == {<<"t1", "p1">>}

\* CreateTournamentParams built from the command
CreateTournamentParams(cmd) ==
    [ID |-> cmd.ID, Authoritative |-> cmd.Authoritative, SortOrder |-> cmd.SortOrder,
     Operator |-> cmd.Operator, ResetSchedule |-> cmd.ResetSchedule,
     Title |-> cmd.Title, Description |-> cmd.Description, Category |-> cmd.Category,
     JoinRequired |-> cmd.JoinRequired,
     StartTime |-> Unix(cmd.StartTime),
     EndTime |-> IF cmd.EndTime # 0 THEN Unix(cmd.EndTime) ELSE 0,
     Duration |-> Seconds(cmd.Duration),
     MaxSize |-> cmd.MaxSize, MaxNumScore |-> cmd.MaxNumScore]

NoParams == [ID |-> "-"]

----------------------------------------------------------------------------
(* service calls of the tournament and analytics services *)

IdleOp ==
    [pc |-> "idle", op |-> "none", cmd |-> NoParams, tid |-> "", pid |-> "",
     count |-> 0, user |-> "", version |-> "", now |-> 0, obj |-> 0, pre |-> 0,
     saveRes |-> "none", provRes |-> "none", nRepo |-> 0, nProv |-> 0,
     nGet |-> 0, batches |-> <<>>, extId |-> "", err |-> ErrNone, alone |-> TRUE]

\* the outcomes of a provider or dispatcher call and the error each returns
ProviderOutcomes == {"ok", "failed", "cancelled"}

ProviderErrorSwallowed(outcome) == ErrNone

ProviderError(outcome) ==
    CASE outcome = "ok" -> ErrNone
      [] outcome = "failed" -> ErrProvider
      [] OTHER -> ErrCancelled

\* caller c starts a call (in state h): it is alone if no other call is in flight,
\* and no call in flight or not yet collected is alone any longer
Started(c, h) ==
    [d \in Callers |->
        IF d = c THEN [h EXCEPT !.alone = \A e \in Callers \ {c} : call[e].pc \in {"idle", "done"}]
        ELSE IF call[d].pc # "idle" THEN [call[d] EXCEPT !.alone = FALSE]
        ELSE call[d]]

Done(h, err) == [h EXCEPT !.pc = "done", !.err = err]

\* where a call goes after s.Repo.Save / s.Participants.Save / s.Sessions.Save
SyncDespiteSaveError(saveErr, next) == next

AfterSave(saveErr, next) == IF saveErr # ErrNone THEN "done" ELSE next

\* where DeleteTournament goes after s.Provider.DeleteTournament
DeleteDespiteProviderError(provErr) == "repoDelete"

AfterProviderDelete(provErr) == IF provErr # ErrNone THEN "done" ELSE "repoDelete"

\* the error of a repository call that succeeded or not
RepoErrorSwallowed(ok) == ErrNone

RepoError(ok) == IF ok THEN ErrNone ELSE ErrRepo

----------------------------------------------------------------------------
(* tournament application service: CreateTournament, DeleteTournament, AddAttempt *)

\* MemoryRepository.Save / Delete
TournamentSaved(t) == [tRepo EXCEPT ![t.ID] = t]

TournamentDeleted(id) == [tRepo EXCEPT ![id] = NoTournament]

\* MemoryParticipantRepository.Get: the stored pointer (0: ErrParticipantNotFound)
ParticipantGet(tid, pid) == pRepo[<<tid, pid>>]

\* now := s.Clock(); tournament.NewTournament(...) (a rejected command keeps no
\* reading of the clock); s.Repo.Save(ctx, t)
CreateTournamentSave(c) ==
    /\ call[c].pc = "idle"
    /\ calls < MaxCalls
    /\ \E cmd \in TournCmds, now \in Times, saveOk \in BOOLEAN :
         LET nt == NewTournament(cmd, now)
             h0 == [IdleOp EXCEPT !.op = "CreateTournament", !.cmd = cmd,
                                  !.tid = cmd.ID, !.now = now]
         IN IF nt[2] # ErrNone
            THEN /\ call' = Started(c, Done([h0 EXCEPT !.now = 0], nt[2]))
                 /\ UNCHANGED tRepo
            ELSE /\ tRepo' = IF saveOk THEN TournamentSaved(nt[1]) ELSE tRepo
                 /\ call' = Started(c,
                       [h0 EXCEPT !.pc = AfterSave(RepoError(saveOk), "provider"),
                                  !.saveRes = IF saveOk THEN "ok" ELSE "err",
                                  !.nRepo = 1, !.err = RepoError(saveOk)])
    /\ calls' = calls + 1
    /\ UNCHANGED <<aggVars, cmdVars, botVars, pHeap, pRepo, provTourn, provAttempts, sessVars>>

\* s.Provider.CreateTournament(ctx, params)
CreateTournamentProvider(c) ==
    /\ call[c].pc = "provider"
    /\ call[c].op = "CreateTournament"
    /\ \E outcome \in ProviderOutcomes :
         /\ provTourn' = IF outcome = "ok"
                         THEN [provTourn EXCEPT ![call[c].tid] =
                                  CreateTournamentParams(call[c].cmd)]
                         ELSE provTourn
         /\ call' = [call EXCEPT ![c] =
               Done([call[c] EXCEPT !.provRes = outcome, !.nProv = @ + 1],
                    ProviderError(outcome))]
    /\ UNCHANGED <<aggVars, cmdVars, botVars, tRepo, pHeap, pRepo, provAttempts, sessVars, calls>>

\* cmd.TournamentID.Validate(); s.Provider.DeleteTournament(ctx, id)
DeleteTournamentProvider(c) ==
    /\ call[c].pc = "idle"
    /\ calls < MaxCalls
    /\ \E tid \in TournIds, outcome \in ProviderOutcomes :
         LET h0 == [IdleOp EXCEPT !.op = "DeleteTournament", !.tid = tid, !.pre = tRepo[tid]]
         IN IF TournamentIDValidate(tid) # ErrNone
            THEN /\ call' = Started(c, Done(h0, TournamentIDValidate(tid)))
                 /\ UNCHANGED provTourn
            ELSE /\ provTourn' = IF outcome = "ok"
                                 THEN [provTourn EXCEPT ![tid] = NoParams]
                                 ELSE provTourn
                 /\ call' = Started(c,
                       [h0 EXCEPT !.pc = AfterProviderDelete(ProviderError(outcome)),
                                  !.provRes = outcome, !.nProv = 1,
                                  !.err = ProviderError(outcome)])
    /\ calls' = calls + 1
    /\ UNCHANGED <<aggVars, cmdVars, botVars, tRepo, pHeap, pRepo, provAttempts, sessVars>>

\* s.Repo.Delete(ctx, cmd.TournamentID)
DeleteTournamentRepo(c) ==
    /\ call[c].pc = "repoDelete"
    /\ \E deleteOk \in BOOLEAN :
         /\ tRepo' = IF deleteOk THEN TournamentDeleted(call[c].tid) ELSE tRepo
         /\ call' = [call EXCEPT ![c] =
               Done([call[c] EXCEPT !.nRepo = @ + 1], RepoError(deleteOk))]
    /\ UNCHANGED <<aggVars, cmdVars, botVars, pHeap, pRepo, provTourn, provAttempts, sessVars, calls>>

\* validation (the clock is not read when it fails); now := s.Clock();
\* s.Participants.Get(...) or tournament.NewParticipant(...)
AddAttemptGet(c) ==
    /\ call[c].pc = "idle"
    /\ calls < MaxCalls
    /\ \E tid \in TournIds, pid \in PlayerIds, count \in AttemptCounts, now \in Times,
          getOk \in BOOLEAN :
         LET h0 == [IdleOp EXCEPT !.op = "AddAttempt", !.tid = tid, !.pid = pid,
                                  !.count = count, !.now = now]
             verr == IF TournamentIDValidate(tid) # ErrNone THEN TournamentIDValidate(tid)
                     ELSE IF PlayerIDValidate(pid) # ErrNone THEN PlayerIDValidate(pid)
                     ELSE IF count <= 0 THEN ErrInvalidAttemptCount
                     ELSE ErrNone
         IN IF verr # ErrNone
            THEN /\ call' = Started(c, Done([h0 EXCEPT !.now = 0], verr))
                 /\ UNCHANGED pHeap
            ELSE IF ~getOk
            THEN /\ call' = Started(c, Done([h0 EXCEPT !.nGet = 1], ErrRepo))
                 /\ UNCHANGED pHeap
            ELSE IF ParticipantGet(tid, pid) # 0
            THEN /\ call' = Started(c,
                       [h0 EXCEPT !.pc = "addAttempts", !.obj = ParticipantGet(tid, pid),
                                  !.nGet = 1,
                                  !.pre = pHeap[ParticipantGet(tid, pid)].Attempts])
                 /\ UNCHANGED pHeap
            ELSE LET np == NewParticipant(tid, pid, now)
                 IN IF np[2] # ErrNone
                    THEN /\ call' = Started(c, Done([h0 EXCEPT !.nGet = 1], np[2]))
                         /\ UNCHANGED pHeap
                    ELSE /\ pHeap' = Append(pHeap, np[1])
                         /\ call' = Started(c,
                               [h0 EXCEPT !.pc = "addAttempts", !.obj = Len(pHeap) + 1,
                                          !.nGet = 1])
    /\ calls' = calls + 1
    /\ UNCHANGED <<aggVars, cmdVars, botVars, tRepo, pRepo, provTourn, provAttempts, sessVars>>

\* the values an unsynchronised read of p.Attempts can yield in a call that got
\* the object from Get: the current one, or the one from before a concurrent write
LoadedAttempts(h) == {pHeap[h.obj].Attempts, h.pre}

\* participant.AddAttempts(cmd.Count, now), on the object Get returned or the new one
AddAttemptAdd(c) ==
    /\ call[c].pc = "addAttempts"
    /\ \E loaded \in LoadedAttempts(call[c]) :
       LET h == call[c]
           aa == AddAttempts([pHeap[h.obj] EXCEPT !.Attempts = loaded], h.count, h.now)
       IN IF aa[2] # ErrNone
          THEN /\ call' = [call EXCEPT ![c] = Done(h, aa[2])]
               /\ UNCHANGED pHeap
          ELSE /\ pHeap' = [pHeap EXCEPT ![h.obj] = aa[1]]
               /\ call' = [call EXCEPT ![c] = [h EXCEPT !.pc = "save"]]
    /\ UNCHANGED <<aggVars, cmdVars, botVars, tRepo, pRepo, provTourn, provAttempts, sessVars,
                   calls>>

\* s.Participants.Save(ctx, participant)
AddAttemptSave(c) ==
    /\ call[c].pc = "save"
    /\ call[c].op = "AddAttempt"
    /\ \E saveOk \in BOOLEAN :
         LET h == call[c]
         IN /\ pRepo' = IF saveOk
                        THEN [pRepo EXCEPT ![<<h.tid, h.pid>>] = h.obj]
                        ELSE pRepo
            /\ call' = [call EXCEPT ![c] =
                  [h EXCEPT !.pc = AfterSave(RepoError(saveOk), "provider"),
                            !.saveRes = IF saveOk THEN "ok" ELSE "err",
                            !.nRepo = @ + 1, !.err = RepoError(saveOk)]]
    /\ UNCHANGED <<aggVars, cmdVars, botVars, tRepo, pHeap, provTourn, provAttempts, sessVars,
                   calls>>

\* the Attempts the participant repository holds for a key
StoredAttempts(k) == IF pRepo[k] = 0 THEN 0 ELSE pHeap[pRepo[k]].Attempts

AttemptsSyncedAsTotal(k, count) == [provAttempts EXCEPT ![k] = @ + StoredAttempts(k)]

\* the provider after it accepted AddAttempt(tournamentID, playerID, cmd.Count)
AttemptsSynced(k, count) == [provAttempts EXCEPT ![k] = @ + count]

\* s.Provider.AddAttempt(ctx, tournamentID, playerID, count)
AddAttemptProvider(c) ==
    /\ call[c].pc = "provider"
    /\ call[c].op = "AddAttempt"
    /\ \E outcome \in ProviderOutcomes :
         /\ provAttempts' = IF outcome = "ok"
                            THEN AttemptsSynced(<<call[c].tid, call[c].pid>>, call[c].count)
                            ELSE provAttempts
         /\ call' = [call EXCEPT ![c] =
               Done([call[c] EXCEPT !.provRes = outcome, !.nProv = @ + 1],
                    ProviderError(outcome))]
    /\ UNCHANGED <<aggVars, cmdVars, botVars, tRepo, pHeap, pRepo, provTourn, sessVars, calls>>

\* the caller has its result; it may call again
CallReturn(c) ==
    /\ call[c].pc = "done"
    /\ call' = [call EXCEPT ![c] = IdleOp]
    /\ UNCHANGED <<aggVars, cmdVars, botVars, tournVars, sessVars, calls>>

InitTourn ==
    /\ tRepo = [id \in TournIds |-> NoTournament]
    /\ pHeap = <<>>
    /\ pRepo = [k \in PKeys |-> 0]
    /\ provTourn = [id \in TournIds |-> NoParams]
    /\ provAttempts = [k \in PKeys |-> 0]

InitCalls ==
    /\ call = [c \in Callers |-> IdleOp]
    /\ calls = 0

NextTourn ==
    \/ \E c \in Callers : CreateTournamentSave(c)
    \/ \E c \in Callers : CreateTournamentProvider(c)
    \/ \E c \in Callers : DeleteTournamentProvider(c)
    \/ \E c \in Callers : DeleteTournamentRepo(c)
    \/ \E c \in Callers : AddAttemptGet(c)
    \/ \E c \in Callers : AddAttemptAdd(c)
    \/ \E c \in Callers : AddAttemptSave(c)
    \/ \E c \in Callers : AddAttemptProvider(c)
    \/ \E c \in Callers : CallReturn(c)

----------------------------------------------------------------------------
(* analytics domain: Session aggregate *)

ErrSessionNotFound == "session not found"
ErrInvalidEvent == "invalid event"
ErrDispatchFailed == "failed to dispatch events"
ErrVersion == "version is required"
ErrSessionEnded == "session already ended"
ErrEndBeforeStart == "end time cannot be before start time"

SessionStateActive == "active"
SessionStateEnded == "ended"

NoSession == [UserID |-> "-", State |-> "none", Version |-> "", StartedAt |-> 0,
              EndedAt |-> 0]

\* NewSession(userID, version, variant, startedAt): <<session, error>>
NewSession(user, version, startedAt) ==
    IF PlayerIDValidate(user) # ErrNone THEN <<NoSession, PlayerIDValidate(user)>>
    ELSE IF version = "" THEN <<NoSession, ErrVersion>>
    ELSE IF startedAt = 0 THEN <<NoSession, ErrStartTime>>
    ELSE <<[UserID |-> user, State |-> SessionStateActive, Version |-> version,
            StartedAt |-> startedAt, EndedAt |-> 0], ErrNone>>

SessionEndOverwriting(s, endedAt) ==
    IF endedAt < s.StartedAt THEN <<s, ErrEndBeforeStart>>
    ELSE <<[s EXCEPT !.State = SessionStateEnded, !.EndedAt = endedAt], ErrNone>>

\* Session.End(endedAt): <<session, error>>
SessionEnd(s, endedAt) ==
    IF s.State = SessionStateEnded THEN <<s, ErrSessionEnded>>
    ELSE IF endedAt < s.StartedAt THEN <<s, ErrEndBeforeStart>>
    ELSE <<[s EXCEPT !.State = SessionStateEnded, !.EndedAt = endedAt], ErrNone>>

----------------------------------------------------------------------------
(* analytics domain: Event *)

ErrTimestamp == "timestamp cannot be zero"
ErrEventName == "event name cannot be empty"

EventTypeIdentify == "identify"
EventTypeTrack == "track"

EventNameStart == "start"
EventNameEnd == "end"

NoEvent == [Type |-> "none"]

\* NewIdentifyEvent(userID, ctx, timestamp): <<event, error>>
NewIdentifyEvent(user, timestamp) ==
    IF PlayerIDValidate(user) # ErrNone THEN <<NoEvent, PlayerIDValidate(user)>>
    ELSE IF timestamp = 0 THEN <<NoEvent, ErrTimestamp>>
    ELSE <<[Type |-> EventTypeIdentify, UserID |-> user, Name |-> "", App |-> "",
            Timestamp |-> timestamp], ErrNone>>

\* NewTrackEvent(userID, name, ctx, timestamp): <<event, error>>
NewTrackEvent(user, name, timestamp) ==
    IF PlayerIDValidate(user) # ErrNone THEN <<NoEvent, PlayerIDValidate(user)>>
    ELSE IF name = "" THEN <<NoEvent, ErrEventName>>
    ELSE IF timestamp = 0 THEN <<NoEvent, ErrTimestamp>>
    ELSE <<[Type |-> EventTypeTrack, UserID |-> user, Name |-> name, App |-> "",
            Timestamp |-> timestamp], ErrNone>>

\* Event.WithAppInfo(name, version)
WithAppInfo(ev, version) == [ev EXCEPT !.App = version]

----------------------------------------------------------------------------
(* analytics application service: StartSession, EndSession *)

Users == {"", "u1"}
Versions == {"", "v1"}

\* the error StartSession / EndSession return for a Dispatch outcome
DispatchError(outcome) == IF outcome = "ok" THEN ErrNone ELSE ErrDispatchFailed

\* validation; now := s.Clock(); analytics.NewSession(...); s.Sessions.Save(ctx, session)
StartSessionSave(c) ==
    /\ call[c].pc = "idle"
    /\ calls < MaxCalls
    /\ \E user \in Users, version \in Versions, now \in Times, saveOk \in BOOLEAN :
         LET h0 == [IdleOp EXCEPT !.op = "StartSession", !.user = user,
                                  !.version = version, !.now = now]
             verr == IF PlayerIDValidate(user) # ErrNone THEN PlayerIDValidate(user)
                     ELSE IF version = "" THEN ErrInvalidEvent
                     ELSE ErrNone
         IN IF verr # ErrNone
            THEN /\ call' = Started(c, Done([h0 EXCEPT !.now = 0], verr))
                 /\ UNCHANGED <<sHeap, sRepo>>
            ELSE IF NewSession(user, version, now)[2] # ErrNone
            THEN /\ call' = Started(c, Done(h0, NewSession(user, version, now)[2]))
                 /\ UNCHANGED <<sHeap, sRepo>>
            ELSE /\ sHeap' = IF saveOk
                             THEN Append(sHeap, NewSession(user, version, now)[1])
                             ELSE sHeap
                 /\ sRepo' = IF saveOk THEN [sRepo EXCEPT ![user] = Len(sHeap) + 1]
                             ELSE sRepo
                 /\ call' = Started(c,
                       [h0 EXCEPT !.pc = AfterSave(RepoError(saveOk), "dispatch"),
                                  !.saveRes = IF saveOk THEN "ok" ELSE "err",
                                  !.nRepo = 1, !.err = RepoError(saveOk)])
    /\ calls' = calls + 1
    /\ UNCHANGED <<aggVars, cmdVars, botVars, tournVars>>

\* the batch StartSession builds: <<events, error>>
StartSessionEventsTrackOnly(user, version, now) ==
    LET tr == NewTrackEvent(user, EventNameStart, now)
    IN IF tr[2] # ErrNone THEN <<(<<>>), tr[2]>>
       ELSE <<(<<WithAppInfo(tr[1], version)>>), ErrNone>>

StartSessionEvents(user, version, now) ==
    LET id == NewIdentifyEvent(user, now)
        tr == NewTrackEvent(user, EventNameStart, now)
    IN IF id[2] # ErrNone THEN <<(<<>>), id[2]>>
       ELSE IF tr[2] # ErrNone THEN <<(<<>>), tr[2]>>
       ELSE <<(<<id[1], WithAppInfo(tr[1], version)>>), ErrNone>>

\* the batch EndSession builds: <<events, error>>
EndSessionEvents(user, now) ==
    LET tr == NewTrackEvent(user, EventNameEnd, now)
    IN IF tr[2] # ErrNone THEN <<(<<>>), tr[2]>> ELSE <<(<<tr[1]>>), ErrNone>>

\* the events are built; s.Dispatcher.Dispatch(ctx, {identifyEvent, trackEvent})
StartSessionDispatch(c) ==
    /\ call[c].pc = "dispatch"
    /\ call[c].op = "StartSession"
    /\ \E outcome \in ProviderOutcomes :
         LET ev == StartSessionEvents(call[c].user, call[c].version, call[c].now)
         IN call' = [call EXCEPT ![c] =
               IF ev[2] # ErrNone THEN Done(call[c], ev[2])
               ELSE Done([call[c] EXCEPT !.provRes = outcome, !.nProv = @ + 1,
                                         !.batches = Append(@, ev[1])],
                         DispatchError(outcome))]
    /\ UNCHANGED <<aggVars, cmdVars, botVars, tournVars, sessVars, calls>>

\* cmd.UserID.Validate(); s.Sessions.Get(ctx, cmd.UserID)
EndSessionGet(c) ==
    /\ call[c].pc = "idle"
    /\ calls < MaxCalls
    /\ \E user \in Users, getOk \in BOOLEAN :
         LET h0 == [IdleOp EXCEPT !.op = "EndSession", !.user = user]
         IN call' = Started(c,
               IF PlayerIDValidate(user) # ErrNone THEN Done(h0, PlayerIDValidate(user))
               ELSE IF ~getOk THEN Done([h0 EXCEPT !.nGet = 1], ErrRepo)
               ELSE IF sRepo[user] = 0 THEN Done([h0 EXCEPT !.nGet = 1], ErrSessionNotFound)
               ELSE [h0 EXCEPT !.pc = "end", !.obj = sRepo[user], !.nGet = 1,
                                !.pre = sHeap[sRepo[user]].State])
    /\ calls' = calls + 1
    /\ UNCHANGED <<aggVars, cmdVars, botVars, tournVars, sessVars>>

\* the values an unsynchronised read of s.State can yield in a call that got the
\* object from Get: the current one, or the one from before a concurrent write
LoadedState(h) == {sHeap[h.obj].State, h.pre}

\* now := s.Clock(); session.End(now), on the object Get returned
EndSessionEnd(c) ==
    /\ call[c].pc = "end"
    /\ \E now \in Times, loaded \in LoadedState(call[c]) :
         LET h == [call[c] EXCEPT !.now = now]
             se == SessionEnd([sHeap[h.obj] EXCEPT !.State = loaded], now)
         IN IF se[2] # ErrNone
            THEN /\ call' = [call EXCEPT ![c] = Done(h, se[2])]
                 /\ UNCHANGED sHeap
            ELSE /\ sHeap' = [sHeap EXCEPT ![h.obj] = se[1]]
                 /\ call' = [call EXCEPT ![c] = [h EXCEPT !.pc = "save"]]
    /\ UNCHANGED <<aggVars, cmdVars, botVars, tournVars, sRepo, calls>>

\* s.Sessions.Save(ctx, session)
EndSessionSave(c) ==
    /\ call[c].pc = "save"
    /\ call[c].op = "EndSession"
    /\ \E saveOk \in BOOLEAN :
         LET h == call[c]
         IN /\ sRepo' = IF saveOk THEN [sRepo EXCEPT ![h.user] = h.obj] ELSE sRepo
            /\ call' = [call EXCEPT ![c] =
                  [h EXCEPT !.pc = AfterSave(RepoError(saveOk), "dispatch"),
                            !.saveRes = IF saveOk THEN "ok" ELSE "err",
                            !.nRepo = @ + 1, !.err = RepoError(saveOk)]]
    /\ UNCHANGED <<aggVars, cmdVars, botVars, tournVars, sHeap, calls>>

\* s.Dispatcher.Dispatch(ctx, {trackEvent}); on error return ErrDispatchFailed
EndSessionDispatch(c) ==
    /\ call[c].pc = "dispatch"
    /\ call[c].op = "EndSession"
    /\ \E outcome \in ProviderOutcomes :
         LET ev == EndSessionEvents(call[c].user, call[c].now)
             h == [call[c] EXCEPT !.provRes = outcome, !.nProv = @ + 1,
                                  !.batches = Append(@, ev[1])]
         IN call' = [call EXCEPT ![c] =
               IF ev[2] # ErrNone THEN Done(call[c], ev[2])
               ELSE IF DispatchError(outcome) # ErrNone
               THEN Done(h, DispatchError(outcome))
               ELSE [h EXCEPT !.pc = "delete"]]
    /\ UNCHANGED <<aggVars, cmdVars, botVars, tournVars, sessVars, calls>>

\* _ = s.Sessions.Delete(ctx, cmd.UserID); return nil
EndSessionDelete(c) ==
    /\ call[c].pc = "delete"
    /\ \E deleteOk \in BOOLEAN :
         sRepo' = IF deleteOk THEN [sRepo EXCEPT ![call[c].user] = 0] ELSE sRepo
    /\ call' = [call EXCEPT ![c] = Done([call[c] EXCEPT !.nRepo = @ + 1], ErrNone)]
    /\ UNCHANGED <<aggVars, cmdVars, botVars, tournVars, sHeap, calls>>

InitSess ==
    /\ sHeap = <<>>
    /\ sRepo = [u \in Users |-> 0]

NextSession ==
    \/ \E c \in Callers : StartSessionSave(c)
    \/ \E c \in Callers : StartSessionDispatch(c)
    \/ \E c \in Callers : EndSessionGet(c)
    \/ \E c \in Callers : EndSessionEnd(c)
    \/ \E c \in Callers : EndSessionSave(c)
    \/ \E c \in Callers : EndSessionDispatch(c)
    \/ \E c \in Callers : EndSessionDelete(c)
    \/ \E c \in Callers : CallReturn(c)

----------------------------------------------------------------------------
(* battle, group and leaderboard domain *)

ErrGroupID == "group id is required"
ErrBattleID == "battle id is required"
ErrSeasonID == "season id is required"
ErrNameRequired == "group name required"

GroupIDValidate(id) == IF Blank(id) THEN ErrGroupID ELSE ErrNone

BattleIDValidate(id) == IF Blank(id) THEN ErrBattleID ELSE ErrNone

SeasonIDValidate(id) == IF Blank(id) THEN ErrSeasonID ELSE ErrNone

NoBattle == [ID |-> "-"]

\* NewBattle(id, leader, key, now): <<battle, error>>
NewBattle(id, leader, key, now) ==
    IF BattleIDValidate(id) # ErrNone THEN <<NoBattle, BattleIDValidate(id)>>
    ELSE IF PlayerIDValidate(leader) # ErrNone THEN <<NoBattle, PlayerIDValidate(leader)>>
    ELSE IF IdempotencyKeyValidate(key) # ErrNone THEN <<NoBattle, IdempotencyKeyValidate(key)>>
    ELSE <<[ID |-> id, Leader |-> leader,
            Slots |-> <<[PlayerID |-> leader, JoinedAt |-> now, Ready |-> TRUE]>>,
            StateSnapshot |-> [Tick |-> 0, UpdatedAt |-> 0],
            CreatedAt |-> now, UpdatedAt |-> now, IdempotencyKey |-> key], ErrNone>>

NoGroup == [ID |-> "-"]

RoleOwner == "owner"
RoleAdmin == "admin"
RoleMember == "member"

\* NewGroup(id, name, owner, now): <<group, error>>
NewGroup(id, name, owner, now) ==
    IF GroupIDValidate(id) # ErrNone THEN <<NoGroup, GroupIDValidate(id)>>
    ELSE IF PlayerIDValidate(owner) # ErrNone THEN <<NoGroup, PlayerIDValidate(owner)>>
    ELSE IF name = "" THEN <<NoGroup, ErrNameRequired>>
    ELSE <<[ID |-> id, Name |-> name,
            Members |-> {[PlayerID |-> owner, Role |-> RoleOwner, JoinedAt |-> now]},
            CreatedAt |-> now, UpdatedAt |-> now], ErrNone>>

ScoreSubmissionUnvalidated(sub) == ErrNone

\* ScoreSubmission.Validate()
ScoreSubmissionValidate(sub) ==
    IF PlayerIDValidate(sub.PlayerID) # ErrNone THEN PlayerIDValidate(sub.PlayerID)
    ELSE IF SeasonIDValidate(sub.SeasonID) # ErrNone THEN SeasonIDValidate(sub.SeasonID)
    ELSE IdempotencyKeyValidate(sub.IdempotencyKey)

----------------------------------------------------------------------------
(* battle, group and leaderboard application services *)

Leaders == {"", "p1"}
BattleKeys == {"", "k1"}
BattleIds == {"", "b1", "b2"}
Creators == {"", "p1"}
GroupNames == {"", "Guild"}
GroupIds == {"", "g1"}
Seasons == {"", "s1"}

\* battle repository Save / group repository Save / leaderboard SubmitScore
BattleSaved(b) == [bRepo EXCEPT ![b.ID] = b]

GroupSaved(g) == [gRepo EXCEPT ![g.ID] = g]

ScoreSubmitted(sub) == lbRepo \cup {sub}

\* where a provider-first command goes after the provider call
AfterProvider(provErr, next) == IF provErr # ErrNone THEN "done" ELSE next

\* the provider after a CreateMatch it answered with battle id bid
MatchCreated(bid, leader) == Append(provMatches, [BattleID |-> bid, LeaderID |-> leader])

StartCommandUnvalidated(cmd) == ErrNone

StartCommandDeduping(cmd) ==
    IF PlayerIDValidate(cmd.LeaderID) # ErrNone THEN PlayerIDValidate(cmd.LeaderID)
    ELSE IF IdempotencyKeyValidate(cmd.IdempotencyKey) # ErrNone
    THEN IdempotencyKeyValidate(cmd.IdempotencyKey)
    ELSE IF \E id \in BattleIds : /\ bRepo[id] # NoBattle
                                  /\ bRepo[id].IdempotencyKey = cmd.IdempotencyKey
    THEN ErrDuplicate ELSE ErrNone

\* cmd.LeaderID.Validate(); cmd.IdempotencyKey.Validate()
StartCommandValidate(cmd) ==
    IF PlayerIDValidate(cmd.LeaderID) # ErrNone THEN PlayerIDValidate(cmd.LeaderID)
    ELSE IdempotencyKeyValidate(cmd.IdempotencyKey)

\* cmd.LeaderID.Validate(); cmd.IdempotencyKey.Validate(); s.Provider.CreateMatch(ctx, payload)
StartBattleProvider(c) ==
    /\ call[c].pc = "idle"
    /\ calls < MaxCalls
    /\ \E leader \in Leaders, key \in BattleKeys, outcome \in ProviderOutcomes,
          bid \in BattleIds :
         LET h0 == [IdleOp EXCEPT !.op = "StartBattle",
                                  !.cmd = [LeaderID |-> leader, IdempotencyKey |-> key]]
             verr == StartCommandValidate(h0.cmd)
         IN IF verr # ErrNone
            THEN /\ call' = Started(c, Done(h0, verr))
                 /\ UNCHANGED provMatches
            ELSE /\ provMatches' = IF outcome = "ok" THEN MatchCreated(bid, leader)
                                   ELSE provMatches
                 /\ call' = Started(c,
                       [h0 EXCEPT !.pc = AfterProvider(ProviderError(outcome), "battleSave"),
                                  !.provRes = outcome, !.nProv = 1,
                                  !.extId = IF outcome = "ok" THEN bid ELSE "",
                                  !.err = ProviderError(outcome)])
    /\ calls' = calls + 1
    /\ UNCHANGED <<aggVars, botVars, tournVars, sessVars, bRepo, provGroups, gRepo, lbRepo>>

\* now := s.Clock(); battle.NewBattle(...); s.Repo.Save(ctx, aggregate)
StartBattleSave(c) ==
    /\ call[c].pc = "battleSave"
    /\ \E now \in Times, saveOk \in BOOLEAN :
         LET h == [call[c] EXCEPT !.now = now]
             nb == NewBattle(h.extId, h.cmd.LeaderID, h.cmd.IdempotencyKey, now)
         IN IF nb[2] # ErrNone
            THEN /\ call' = [call EXCEPT ![c] = Done(h, nb[2])]
                 /\ UNCHANGED bRepo
            ELSE /\ bRepo' = IF saveOk THEN BattleSaved(nb[1]) ELSE bRepo
                 /\ call' = [call EXCEPT ![c] =
                       Done([h EXCEPT !.saveRes = IF saveOk THEN "ok" ELSE "err",
                                      !.nRepo = @ + 1], RepoError(saveOk))]
    /\ UNCHANGED <<aggVars, botVars, tournVars, sessVars, provMatches, provGroups, gRepo,
                   lbRepo, calls>>

\* cmd.CreatorID.Validate(); now := s.Clock(); s.Provider.CreateGroup(ctx, payload)
CreateGroupProvider(c) ==
    /\ call[c].pc = "idle"
    /\ calls < MaxCalls
    /\ \E creator \in Creators, name \in GroupNames, now \in Times,
          outcome \in ProviderOutcomes, gid \in GroupIds :
         LET h0 == [IdleOp EXCEPT !.op = "CreateGroup", !.now = now,
                                  !.cmd = [CreatorID |-> creator, Name |-> name]]
         IN IF PlayerIDValidate(creator) # ErrNone
            THEN /\ call' = Started(c, Done(h0, PlayerIDValidate(creator)))
                 /\ UNCHANGED provGroups
            ELSE /\ provGroups' = IF outcome = "ok"
                                  THEN provGroups \cup {<<name, creator>>}
                                  ELSE provGroups
                 /\ call' = Started(c,
                       [h0 EXCEPT !.pc = AfterProvider(ProviderError(outcome), "groupSave"),
                                  !.provRes = outcome, !.nProv = 1,
                                  !.extId = IF outcome = "ok" THEN gid ELSE "",
                                  !.err = ProviderError(outcome)])
    /\ calls' = calls + 1
    /\ UNCHANGED <<aggVars, botVars, tournVars, sessVars, provMatches, bRepo, gRepo, lbRepo>>

\* group.NewGroup(result.GroupID, cmd.Name, cmd.CreatorID, now); s.Repo.Save(ctx, aggregate)
CreateGroupSave(c) ==
    /\ call[c].pc = "groupSave"
    /\ \E saveOk \in BOOLEAN :
         LET h == call[c]
             ng == NewGroup(h.extId, h.cmd.Name, h.cmd.CreatorID, h.now)
         IN IF ng[2] # ErrNone
            THEN /\ call' = [call EXCEPT ![c] = Done(h, ng[2])]
                 /\ UNCHANGED gRepo
            ELSE /\ gRepo' = IF saveOk THEN GroupSaved(ng[1]) ELSE gRepo
                 /\ call' = [call EXCEPT ![c] =
                       Done([h EXCEPT !.saveRes = IF saveOk THEN "ok" ELSE "err",
                                      !.nRepo = @ + 1], RepoError(saveOk))]
    /\ UNCHANGED <<aggVars, botVars, tournVars, sessVars, provMatches, bRepo, provGroups,
                   lbRepo, calls>>

\* submission{..., SubmittedAt: s.Clock()}; submission.Validate(); s.Repo.SubmitScore(...)
Submit(c) ==
    /\ call[c].pc = "idle"
    /\ calls < MaxCalls
    /\ \E player \in Leaders, season \in Seasons, key \in BattleKeys, now \in Times,
          submitOk \in BOOLEAN :
         LET sub == [PlayerID |-> player, SeasonID |-> season, Value |-> 1,
                     IdempotencyKey |-> key, SubmittedAt |-> now]
             h0 == [IdleOp EXCEPT !.op = "Submit", !.now = now, !.cmd = sub]
         IN IF ScoreSubmissionValidate(sub) # ErrNone
            THEN /\ call' = Started(c, Done(h0, ScoreSubmissionValidate(sub)))
                 /\ UNCHANGED lbRepo
            ELSE /\ lbRepo' = IF submitOk THEN ScoreSubmitted(sub) ELSE lbRepo
                 /\ call' = Started(c,
                       Done([h0 EXCEPT !.saveRes = IF submitOk THEN "ok" ELSE "err",
                                       !.nRepo = 1], RepoError(submitOk)))
    /\ calls' = calls + 1
    /\ UNCHANGED <<aggVars, botVars, tournVars, sessVars, provMatches, bRepo, provGroups, gRepo>>

InitCmd ==
    /\ provMatches = <<>>
    /\ bRepo = [id \in BattleIds |-> NoBattle]
    /\ provGroups = {}
    /\ gRepo = [id \in GroupIds |-> NoGroup]
    /\ lbRepo = {}

NextCmd ==
    \/ \E c \in Callers : StartBattleProvider(c)
    \/ \E c \in Callers : StartBattleSave(c)
    \/ \E c \in Callers : CreateGroupProvider(c)
    \/ \E c \in Callers : CreateGroupSave(c)
    \/ \E c \in Callers : Submit(c)
    \/ \E c \in Callers : CallReturn(c)

----------------------------------------------------------------------------
(* Tournament and Participant aggregates under their methods *)

ErrTournamentAlreadyEnded == "tournament already ended"
ErrEndTime == "end time cannot be before start time"
ErrResetState == "can only reset active or ended tournaments"

TournamentEndOverwriting(t, endTime) ==
    IF endTime < t.StartTime THEN <<t, ErrEndTime>>
    ELSE <<[t EXCEPT !.State = StateEnded, !.EndTime = endTime, !.UpdatedAt = endTime],
           ErrNone>>

\* Tournament.End(endTime): <<tournament, error>>
TournamentEnd(t, endTime) ==
    IF t.State = StateEnded THEN <<t, ErrTournamentAlreadyEnded>>
    ELSE IF endTime < t.StartTime THEN <<t, ErrEndTime>>
    ELSE <<[t EXCEPT !.State = StateEnded, !.EndTime = endTime, !.UpdatedAt = endTime],
           ErrNone>>

\* Tournament.Reset(resetTime): <<tournament, error>>
TournamentReset(t, resetTime) ==
    IF t.State # StateActive /\ t.State # StateEnded THEN <<t, ErrResetState>>
    ELSE <<[t EXCEPT !.State = StateReset, !.UpdatedAt = resetTime], ErrNone>>

\* Tournament.CalculateEndTime(); 0 is the zero time
CalculateEndTime(t) ==
    IF t.Duration > 0 THEN t.StartTime + t.Duration
    ELSE IF t.EndTime # 0 THEN t.EndTime
    ELSE 0

\* Participant.ResetAttempts(now)
ResetAttempts(p, now) == [p EXCEPT !.Attempts = 0, !.UpdatedAt = now]

\* the counts handed to Participant.AddAttempts
AttemptDeltas == {-1, 0, 1, 2}

NoLast == [op |-> "none", arg |-> 0, at |-> 0, err |-> ErrNone, pre |-> NoTournament]

\* t.End(endTime)
AggEnd ==
    /\ \E endTime \in Times :
         /\ tourn' = TournamentEnd(tourn, endTime)[1]
         /\ last' = [op |-> "End", arg |-> 0, at |-> endTime,
                     err |-> TournamentEnd(tourn, endTime)[2], pre |-> tourn]
    /\ UNCHANGED <<part, entVars, botVars, tournVars, sessVars, cmdVars, call, calls>>

\* t.Reset(resetTime)
AggReset ==
    /\ \E resetTime \in Times :
         /\ tourn' = TournamentReset(tourn, resetTime)[1]
         /\ last' = [op |-> "Reset", arg |-> 0, at |-> resetTime,
                     err |-> TournamentReset(tourn, resetTime)[2], pre |-> tourn]
    /\ UNCHANGED <<part, entVars, botVars, tournVars, sessVars, cmdVars, call, calls>>

\* p.AddAttempts(count, now)
AggAddAttempts ==
    /\ \E count \in AttemptDeltas, now \in Times :
         /\ part.Attempts + count <= MaxAttempts
         /\ part' = AddAttempts(part, count, now)[1]
         /\ last' = [op |-> "AddAttempts", arg |-> count, at |-> now,
                     err |-> AddAttempts(part, count, now)[2], pre |-> part]
    /\ UNCHANGED <<tourn, entVars, botVars, tournVars, sessVars, cmdVars, call, calls>>

\* p.ResetAttempts(now)
AggResetAttempts ==
    /\ \E now \in Times :
         /\ part' = ResetAttempts(part, now)
         /\ last' = [op |-> "ResetAttempts", arg |-> 0, at |-> now, err |-> ErrNone,
                     pre |-> part]
    /\ UNCHANGED <<tourn, entVars, botVars, tournVars, sessVars, cmdVars, call, calls>>

\* no aggregate is under test
InitAggNone ==
    /\ tourn = NoTournament
    /\ part = NoParticipant
    /\ last = NoLast

\* a tournament from NewTournament and a participant from NewParticipant
InitAgg ==
    /\ tourn \in {NewTournament([BaseCmd EXCEPT !.StartTime = st], now)[1] :
                     st \in Times, now \in Times}
    /\ part \in {NewParticipant("t1", "p1", joinedAt)[1] : joinedAt \in Times}
    /\ last = NoLast

\* the arguments handed to NewTournament
TournInputs ==
    {[BaseCmd EXCEPT !.ID = id, !.Title = title, !.Category = category,
                     !.MaxSize = maxSize, !.MaxNumScore = maxNumScore,
                     !.StartTime = startTime, !.Duration = duration] :
        id \in {"", " ", "t1"}, title \in {"", " ", "Cup"}, category \in {-1, 0},
        maxSize \in {-1, 10}, maxNumScore \in {-1, 3}, startTime \in {0} \cup Times,
        duration \in {-1, 0, 4}}

\* a call of NewTournament about to be made
InitNew ==
    /\ tourn = NoTournament
    /\ part = NoParticipant
    /\ last \in {[op |-> "call", arg |-> cmd, at |-> now, err |-> ErrNone,
                   pre |-> NoTournament] : cmd \in TournInputs, now \in Times}

\* tournament.NewTournament(...)
AggNewTournament ==
    /\ last.op = "call"
    /\ tourn' = NewTournament(last.arg, last.at)[1]
    /\ last' = [last EXCEPT !.op = "NewTournament",
                            !.err = NewTournament(last.arg, last.at)[2]]
    /\ UNCHANGED <<part, entVars, botVars, tournVars, sessVars, cmdVars, call, calls>>

NextAgg ==
    \/ AggEnd
    \/ AggReset
    \/ AggAddAttempts
    \/ AggResetAttempts

----------------------------------------------------------------------------
(* Battle, Session, bot Command, Group and PlayerAccount aggregates under  *)
(* their methods                                                           *)

MaxRetries == 3
MaxSessions == 1

ErrPlayerAlreadyJoined == "player already joined battle"
ErrPlayerNotFound == "player not in battle"
ErrMemberNotFound == "group member not found"
ErrEmailRequired == "player email is required"
ErrAccountSuspended == "player account suspended"
ErrDeviceInvalid == "device fingerprint invalid"

\* for _, slot := range b.Slots { if slot.PlayerID == player
SlotsOf(b, player) == {i \in 1..Len(b.Slots) : b.Slots[i].PlayerID = player}

AddPlayerUnchecked(b, player, now) ==
    <<[b EXCEPT !.Slots = Append(@, [PlayerID |-> player, JoinedAt |-> now,
                                     Ready |-> FALSE]),
                !.UpdatedAt = now], ErrNone>>

\* Battle.AddPlayer(player, now): <<battle, error>>
AddPlayer(b, player, now) ==
    IF SlotsOf(b, player) # {} THEN <<b, ErrPlayerAlreadyJoined>>
    ELSE <<[b EXCEPT !.Slots = Append(@, [PlayerID |-> player, JoinedAt |-> now,
                                          Ready |-> FALSE]),
                     !.UpdatedAt = now], ErrNone>>

\* Battle.MarkReady(player, ready, now): <<battle, error>>; the first matching slot
MarkReady(b, player, ready, now) ==
    IF SlotsOf(b, player) = {} THEN <<b, ErrPlayerNotFound>>
    ELSE LET i == CHOOSE j \in SlotsOf(b, player) : \A k \in SlotsOf(b, player) : j <= k
         IN <<[b EXCEPT !.Slots[i].Ready = ready, !.UpdatedAt = now], ErrNone>>

\* Battle.UpdateSnapshot(state); wall is time.Now()
UpdateSnapshot(b, state, wall) ==
    LET st == IF state.UpdatedAt = 0 THEN [state EXCEPT !.UpdatedAt = wall] ELSE state
    IN [b EXCEPT !.StateSnapshot = st, !.UpdatedAt = st.UpdatedAt]

\* Session.Duration(); now is the reading of time.Since for a session not ended
Duration(s, now) ==
    IF s.EndedAt = 0 THEN now - s.StartedAt ELSE s.EndedAt - s.StartedAt

\* _, ok := g.Members[playerID]
MemberOf(g, player) == {m \in g.Members : m.PlayerID = player}

AssignRoleRejoining(g, player, role, now) ==
    IF MemberOf(g, player) = {} THEN <<g, ErrMemberNotFound>>
    ELSE <<[g EXCEPT !.Members = (@ \ MemberOf(g, player)) \cup
                        {[PlayerID |-> player, Role |-> role, JoinedAt |-> now]},
                     !.UpdatedAt = now], ErrNone>>

\* Group.AssignRole(playerID, role, now): <<group, error>>
AssignRole(g, player, role, now) ==
    IF MemberOf(g, player) = {} THEN <<g, ErrMemberNotFound>>
    ELSE <<[g EXCEPT !.Members = (@ \ MemberOf(g, player)) \cup
                        {[m EXCEPT !.Role = role] : m \in MemberOf(g, player)},
                     !.UpdatedAt = now], ErrNone>>

NoAccount == [ID |-> "-"]

\* NewPlayerAccount(id, email, displayName, now): <<account, error>>
NewPlayerAccount(id, email, displayName, now) ==
    IF PlayerIDValidate(id) # ErrNone THEN <<NoAccount, PlayerIDValidate(id)>>
    ELSE IF email = "" THEN <<NoAccount, ErrEmailRequired>>
    ELSE <<[ID |-> id, Email |-> email, DisplayName |-> displayName, Devices |-> {},
            Sessions |-> <<>>, CreatedAt |-> now, UpdatedAt |-> now,
            Suspended |-> FALSE, SuspensionMsg |-> ""], ErrNone>>

\* PlayerAccount.RegisterDevice(device): <<account, error>>; wall is time.Now()
RegisterDevice(p, device, wall) ==
    IF p.Suspended THEN <<p, ErrAccountSuspended>>
    ELSE IF device.ID = "" THEN <<p, ErrDeviceInvalid>>
    ELSE <<[p EXCEPT !.Devices = {d \in @ : d.ID # device.ID} \cup
                        {IF device.LastSeen = 0 THEN [device EXCEPT !.LastSeen = wall]
                         ELSE device},
                     !.UpdatedAt = wall], ErrNone>>

\* PlayerAccount.RecordSession(session); wall is time.Now()
RecordSession(p, session, wall) ==
    IF session.SessionID = "" THEN p
    ELSE [p EXCEPT !.Sessions = Append(@, IF session.IssuedAt = 0
                                          THEN [session EXCEPT !.IssuedAt = wall]
                                          ELSE session),
                   !.UpdatedAt = wall]

\* PlayerAccount.Suspend(message); wall is time.Now()
Suspend(p, message, wall) ==
    [p EXCEPT !.Suspended = TRUE, !.SuspensionMsg = message, !.UpdatedAt = wall]

\* PlayerAccount.Reinstate(); wall is time.Now()
Reinstate(p, wall) ==
    [p EXCEPT !.Suspended = FALSE, !.SuspensionMsg = "", !.UpdatedAt = wall]

\* PlayerAccount.CanStartBattle(key)
CanStartBattle(p, key) ==
    IF p.Suspended THEN ErrAccountSuspended ELSE IdempotencyKeyValidate(key)

BattlePlayers == {"p1", "p2", "p3"}
Roles == {RoleOwner, RoleAdmin, RoleMember}
DeviceIds == {"", "d1"}
SessionTokens == {"", "tok"}
Emails == {"", "e1"}
AttemptErrors == {ErrNone, ErrQueue}

\* a time field of an argument: left zero, or set
Stamps == {0, 1}

\* b.AddPlayer(player, now)
EntAddPlayer ==
    /\ battle # NoBattle
    /\ \E player \in BattlePlayers, now \in Times :
         /\ battle' = AddPlayer(battle, player, now)[1]
         /\ last' = [op |-> "AddPlayer", arg |-> player, at |-> now,
                     err |-> AddPlayer(battle, player, now)[2], pre |-> battle]
    /\ UNCHANGED <<sess, acct, command, group, tourn, part, botVars, tournVars, sessVars,
                   cmdVars, call, calls>>

\* b.MarkReady(player, ready, now)
EntMarkReady ==
    /\ battle # NoBattle
    /\ \E player \in BattlePlayers, ready \in BOOLEAN, now \in Times :
         /\ battle' = MarkReady(battle, player, ready, now)[1]
         /\ last' = [op |-> "MarkReady", arg |-> player, at |-> now,
                     err |-> MarkReady(battle, player, ready, now)[2], pre |-> battle]
    /\ UNCHANGED <<sess, acct, command, group, tourn, part, botVars, tournVars, sessVars,
                   cmdVars, call, calls>>

\* b.UpdateSnapshot(state)
EntUpdateSnapshot ==
    /\ battle # NoBattle
    /\ \E updatedAt \in Stamps, wall \in Times :
         LET state == [Tick |-> 1, UpdatedAt |-> updatedAt]
         IN /\ battle' = UpdateSnapshot(battle, state, wall)
            /\ last' = [op |-> "UpdateSnapshot", arg |-> state, at |-> wall,
                        err |-> ErrNone, pre |-> battle]
    /\ UNCHANGED <<sess, acct, command, group, tourn, part, botVars, tournVars, sessVars,
                   cmdVars, call, calls>>

\* s.End(endedAt)
EntSessionEnd ==
    /\ sess # NoSession
    /\ \E endedAt \in Times :
         /\ sess' = SessionEnd(sess, endedAt)[1]
         /\ last' = [op |-> "End", arg |-> 0, at |-> endedAt,
                     err |-> SessionEnd(sess, endedAt)[2], pre |-> sess]
    /\ UNCHANGED <<battle, acct, command, group, tourn, part, botVars, tournVars, sessVars,
                   cmdVars, call, calls>>

\* c.MarkAttempt(now, err)
EntMarkAttempt ==
    /\ command # NoCommand
    /\ command.RetryCount < MaxRetries
    /\ \E now \in Times, err \in AttemptErrors :
         /\ command' = MarkAttempt(command, now, err)
         /\ last' = [op |-> "MarkAttempt", arg |-> err, at |-> now, err |-> ErrNone,
                     pre |-> command]
    /\ UNCHANGED <<battle, sess, acct, group, tourn, part, botVars, tournVars, sessVars,
                   cmdVars, call, calls>>

\* g.AssignRole(playerID, role, now)
EntAssignRole ==
    /\ group # NoGroup
    /\ \E player \in BattlePlayers, role \in Roles, now \in Times :
         /\ group' = AssignRole(group, player, role, now)[1]
         /\ last' = [op |-> "AssignRole", arg |-> player, at |-> now,
                     err |-> AssignRole(group, player, role, now)[2], pre |-> group]
    /\ UNCHANGED <<battle, sess, acct, command, tourn, part, botVars, tournVars, sessVars,
                   cmdVars, call, calls>>

\* p.RegisterDevice(device)
EntRegisterDevice ==
    /\ acct # NoAccount
    /\ \E id \in DeviceIds, seen \in Stamps, wall \in Times :
         LET device == [ID |-> id, Platform |-> "", LastSeen |-> seen]
         IN /\ acct' = RegisterDevice(acct, device, wall)[1]
            /\ last' = [op |-> "RegisterDevice", arg |-> device, at |-> wall,
                        err |-> RegisterDevice(acct, device, wall)[2], pre |-> acct]
    /\ UNCHANGED <<battle, sess, command, group, tourn, part, botVars, tournVars, sessVars,
                   cmdVars, call, calls>>

\* p.RecordSession(session)
EntRecordSession ==
    /\ acct # NoAccount
    /\ Len(acct.Sessions) < MaxSessions
    /\ \E token \in SessionTokens, issued \in Stamps, wall \in Times :
         LET session == [SessionID |-> token, IssuedAt |-> issued]
         IN /\ acct' = RecordSession(acct, session, wall)
            /\ last' = [op |-> "RecordSession", arg |-> session, at |-> wall,
                        err |-> ErrNone, pre |-> acct]
    /\ UNCHANGED <<battle, sess, command, group, tourn, part, botVars, tournVars, sessVars,
                   cmdVars, call, calls>>

\* p.Suspend(message)
EntSuspend ==
    /\ acct # NoAccount
    /\ \E wall \in Times :
         /\ acct' = Suspend(acct, "banned", wall)
         /\ last' = [op |-> "Suspend", arg |-> "banned", at |-> wall, err |-> ErrNone,
                     pre |-> acct]
    /\ UNCHANGED <<battle, sess, command, group, tourn, part, botVars, tournVars, sessVars,
                   cmdVars, call, calls>>

\* p.Reinstate()
EntReinstate ==
    /\ acct # NoAccount
    /\ \E wall \in Times :
         /\ acct' = Reinstate(acct, wall)
         /\ last' = [op |-> "Reinstate", arg |-> 0, at |-> wall, err |-> ErrNone,
                     pre |-> acct]
    /\ UNCHANGED <<battle, sess, command, group, tourn, part, botVars, tournVars, sessVars,
                   cmdVars, call, calls>>

\* p.CanStartBattle(key)
EntCanStartBattle ==
    /\ acct # NoAccount
    /\ \E key \in BattleKeys :
         last' = [op |-> "CanStartBattle", arg |-> key, at |-> 0,
                  err |-> CanStartBattle(acct, key), pre |-> acct]
    /\ UNCHANGED <<battle, sess, acct, command, group, tourn, part, botVars, tournVars,
                   sessVars, cmdVars, call, calls>>

----------------------------------------------------------------------------
(* auth application service: AuthenticateDevice, AuthenticateEmail *)

\* player repository GetByID(id): <<account, error>>
AccountGet(id, getOk) ==
    IF ~getOk THEN <<NoAccount, ErrRepo>>
    ELSE IF acct = NoAccount \/ acct.ID # id THEN <<NoAccount, ErrNotFound>>
    ELSE <<acct, ErrNone>>

\* account, err = player.NewPlayerAccount(...) when GetByID answered ErrNotFound
AccountFor(got, id, email, displayName, now) ==
    IF got[2] = ErrNotFound THEN NewPlayerAccount(id, email, displayName, now) ELSE got

\* the account AuthenticateDevice hands to Repo.Save
DeviceAccount(a, deviceID, token, now, wall) ==
    RecordSession(RegisterDevice(a, [ID |-> deviceID, Platform |-> "", LastSeen |-> now],
                                 wall)[1],
                  [SessionID |-> token, IssuedAt |-> now], wall)

\* the account AuthenticateEmail hands to Repo.Save
EmailAccount(a, token, now, wall) ==
    RecordSession(a, [SessionID |-> token, IssuedAt |-> now], wall)

\* the e-mail addresses that can make a difference: none once the account exists
EmailsFor(got) == IF got[2] = ErrNotFound THEN Emails ELSE {"e1"}

\* s.Auth.AuthenticateDevice; s.Clock(); GetByID / NewPlayerAccount; RegisterDevice;
\* RecordSession; s.Repo.Save
AuthenticateDevice ==
    /\ sess = NoSession /\ battle = NoBattle /\ command = NoCommand /\ group = NoGroup
    /\ IF acct = NoAccount THEN TRUE ELSE Len(acct.Sessions) < MaxSessions
    /\ \E deviceID \in DeviceIds, outcome \in ProviderOutcomes, user \in Leaders,
          getOk \in BOOLEAN :
         LET in == [op |-> "AuthenticateDevice",
                    arg |-> [deviceID |-> deviceID, user |-> user, token |-> ""],
                    at |-> 0, err |-> ErrNone, pre |-> acct]
             got == AccountGet(user, getOk)
         IN IF ProviderError(outcome) # ErrNone
            THEN /\ last' = [in EXCEPT !.arg.user = "", !.err = ProviderError(outcome)]
                 /\ UNCHANGED acct
            ELSE IF got[2] \notin {ErrNone, ErrNotFound}
            THEN /\ last' = [in EXCEPT !.err = got[2]]
                 /\ UNCHANGED acct
            ELSE \E email \in EmailsFor(got), token \in SessionTokens, now \in Times :
                   LET a == AccountFor(got, user, email, "name", now)
                       res == [in EXCEPT !.arg.token = token, !.at = now]
                   IN IF a[2] # ErrNone
                      THEN /\ last' = [res EXCEPT !.err = a[2]]
                           /\ UNCHANGED acct
                      ELSE \E saveOk \in BOOLEAN :
                             IF ~saveOk
                             THEN /\ last' = [res EXCEPT !.err = RepoError(saveOk)]
                                  /\ UNCHANGED acct
                             ELSE \E wall \in Times :
                                    /\ acct' = DeviceAccount(a[1], deviceID, token, now,
                                                             wall)
                                    /\ last' = res
    /\ UNCHANGED <<battle, sess, command, group, tourn, part, botVars, tournVars, sessVars,
                   cmdVars, call, calls>>

\* s.Auth.AuthenticateEmail; s.Clock(); GetByID / NewPlayerAccount; RecordSession;
\* s.Repo.Save
AuthenticateEmail ==
    /\ sess = NoSession /\ battle = NoBattle /\ command = NoCommand /\ group = NoGroup
    /\ IF acct = NoAccount THEN TRUE ELSE Len(acct.Sessions) < MaxSessions
    /\ \E outcome \in ProviderOutcomes, user \in Leaders, getOk \in BOOLEAN :
         LET in == [op |-> "AuthenticateEmail",
                    arg |-> [deviceID |-> "", user |-> user, token |-> ""],
                    at |-> 0, err |-> ErrNone, pre |-> acct]
             got == AccountGet(user, getOk)
         IN IF ProviderError(outcome) # ErrNone
            THEN /\ last' = [in EXCEPT !.arg.user = "", !.err = ProviderError(outcome)]
                 /\ UNCHANGED acct
            ELSE IF got[2] \notin {ErrNone, ErrNotFound}
            THEN /\ last' = [in EXCEPT !.err = got[2]]
                 /\ UNCHANGED acct
            ELSE \E email \in EmailsFor(got), token \in SessionTokens, now \in Times :
                   LET a == AccountFor(got, user, email, "name", now)
                       res == [in EXCEPT !.arg.token = token, !.at = now]
                   IN IF a[2] # ErrNone
                      THEN /\ last' = [res EXCEPT !.err = a[2]]
                           /\ UNCHANGED acct
                      ELSE \E saveOk \in BOOLEAN :
                             IF ~saveOk
                             THEN /\ last' = [res EXCEPT !.err = RepoError(saveOk)]
                                  /\ UNCHANGED acct
                             ELSE \E wall \in Times :
                                    /\ acct' = EmailAccount(a[1], token, now, wall)
                                    /\ last' = res
    /\ UNCHANGED <<battle, sess, command, group, tourn, part, botVars, tournVars, sessVars,
                   cmdVars, call, calls>>

\* no aggregate of these kinds is under test
InitEntNone ==
    /\ battle = NoBattle
    /\ sess = NoSession
    /\ acct = NoAccount
    /\ command = NoCommand
    /\ group = NoGroup

\* one aggregate from its constructor (the player repository starts empty)
InitEnt ==
    \/ /\ battle \in {NewBattle("b1", "p1", "k1", now)[1] : now \in Times}
       /\ sess = NoSession /\ acct = NoAccount /\ command = NoCommand /\ group = NoGroup
    \/ /\ sess \in {NewSession("u1", "v1", startedAt)[1] : startedAt \in Times}
       /\ battle = NoBattle /\ acct = NoAccount /\ command = NoCommand /\ group = NoGroup
    \/ /\ command \in {NewCommand("b1", "k1", now)[1] : now \in Times}
       /\ battle = NoBattle /\ sess = NoSession /\ acct = NoAccount /\ group = NoGroup
    \/ /\ group \in {NewGroup("g1", "Guild", "p1", now)[1] : now \in Times}
       /\ battle = NoBattle /\ sess = NoSession /\ acct = NoAccount /\ command = NoCommand
    \/ InitEntNone

NextEnt ==
    \/ EntAddPlayer
    \/ EntMarkReady
    \/ EntUpdateSnapshot
    \/ EntSessionEnd
    \/ EntMarkAttempt
    \/ EntAssignRole
    \/ EntRegisterDevice
    \/ EntRecordSession
    \/ EntSuspend
    \/ EntReinstate
    \/ EntCanStartBattle
    \/ AuthenticateDevice
    \/ AuthenticateEmail

----------------------------------------------------------------------------
(* Specifications *)

InitBotVars ==
    /\ botReserved = {}
    /\ botStore = [k \in BotKeys |-> NoCommand]
    /\ botQueue = {}
    /\ botSaved = {}
    /\ botEnq = [k \in BotKeys |-> 0]
    /\ botAccepted = {}
    /\ botCalls = 0
    /\ handle = [c \in Callers |-> IdleCall]

\* bot.NewService with any of Producer and Notifier nil
InitBot ==
    /\ botWired \in [producer : BOOLEAN, notifier : BOOLEAN]
    /\ InitBotVars /\ InitTourn /\ InitSess /\ InitCalls /\ InitCmd /\ InitAggNone
    /\ InitEntNone

\* the services as cmd/api/main.go wires them
Init ==
    /\ botWired = [producer |-> TRUE, notifier |-> TRUE]
    /\ InitBotVars /\ InitTourn /\ InitSess /\ InitCalls /\ InitCmd /\ InitAggNone
    /\ InitEntNone

NextBot ==
    \/ \E c \in Callers : HandleReserve(c)
    \/ \E c \in Callers : HandleSave(c)
    \/ \E c \in Callers : HandleEnqueue(c)
    \/ \E c \in Callers : HandleSaveFailed(c)
    \/ \E c \in Callers : HandleNotify(c)
    \/ \E c \in Callers : HandleReturn(c)
    \/ \E key \in BotKeys, state \in {CommandStateCompleted, CommandStateFailed} :
         MarkProcessed(key, state)

\* the tournament and the analytics service called side by side
\* the repository after a StartSession for u1 has saved its session and returned
InitStarted ==
    /\ sHeap \in {<<NewSession("u1", "v1", startedAt)[1]>> : startedAt \in Times}
    /\ sRepo = [u \in Users |-> IF u = "u1" THEN 1 ELSE 0]

InitRetry ==
    /\ botWired = [producer |-> TRUE, notifier |-> TRUE]
    /\ InitBotVars /\ InitTourn /\ InitStarted /\ InitCalls /\ InitCmd /\ InitAggNone
    /\ InitEntNone

\* EndSession calls, and the retries a caller makes after an error
NextRetry ==
    \/ \E c \in Callers : EndSessionGet(c)
    \/ \E c \in Callers : EndSessionEnd(c)
    \/ \E c \in Callers : EndSessionSave(c)
    \/ \E c \in Callers : EndSessionDispatch(c)
    \/ \E c \in Callers : EndSessionDelete(c)
    \/ \E c \in Callers : CallReturn(c)

NextSync ==
    \/ \E c \in Callers : CreateTournamentSave(c)
    \/ \E c \in Callers : CreateTournamentProvider(c)
    \/ \E c \in Callers : DeleteTournamentProvider(c)
    \/ \E c \in Callers : DeleteTournamentRepo(c)
    \/ \E c \in Callers : AddAttemptGet(c)
    \/ \E c \in Callers : AddAttemptAdd(c)
    \/ \E c \in Callers : AddAttemptSave(c)
    \/ \E c \in Callers : AddAttemptProvider(c)
    \/ \E c \in Callers : StartSessionSave(c)
    \/ \E c \in Callers : StartSessionDispatch(c)
    \/ \E c \in Callers : EndSessionGet(c)
    \/ \E c \in Callers : EndSessionEnd(c)
    \/ \E c \in Callers : EndSessionSave(c)
    \/ \E c \in Callers : EndSessionDispatch(c)
    \/ \E c \in Callers : EndSessionDelete(c)
    \/ \E c \in Callers : CallReturn(c)

\* every service but the bot intake, called by one caller, one command after another
Sequential == {"c1"}

\* the instants a stored tournament is ended at: before and after its start
EndTimes == {BaseCmd.StartTime - 1, BaseCmd.StartTime + 1}

\* t, _ := repo.Get(ctx, id); t.End(endTime): Get hands out the stored object
StoredEnd ==
    /\ \E id \in TournIds, endTime \in EndTimes :
         /\ tRepo[id] # NoTournament
         /\ tRepo' = [tRepo EXCEPT ![id] = TournamentEnd(tRepo[id], endTime)[1]]
    /\ UNCHANGED <<aggVars, cmdVars, botVars, pHeap, pRepo, provTourn, provAttempts,
                   sessVars, call, calls>>

\* t, _ := repo.Get(ctx, id); t.Reset(resetTime)
StoredReset ==
    /\ \E id \in TournIds, resetTime \in Times :
         /\ tRepo[id] # NoTournament
         /\ tRepo' = [tRepo EXCEPT ![id] = TournamentReset(tRepo[id], resetTime)[1]]
    /\ UNCHANGED <<aggVars, cmdVars, botVars, pHeap, pRepo, provTourn, provAttempts,
                   sessVars, call, calls>>

\* the tournament service for one caller, and the stored tournaments under End and Reset
NextStore ==
    \/ \E c \in Sequential : CreateTournamentSave(c)
    \/ \E c \in Sequential : CreateTournamentProvider(c)
    \/ \E c \in Sequential : DeleteTournamentProvider(c)
    \/ \E c \in Sequential : DeleteTournamentRepo(c)
    \/ \E c \in Sequential : CallReturn(c)
    \/ StoredEnd
    \/ StoredReset

NextSeq ==
    \/ \E c \in Sequential : CreateTournamentSave(c)
    \/ \E c \in Sequential : CreateTournamentProvider(c)
    \/ \E c \in Sequential : DeleteTournamentProvider(c)
    \/ \E c \in Sequential : DeleteTournamentRepo(c)
    \/ \E c \in Sequential : AddAttemptGet(c)
    \/ \E c \in Sequential : AddAttemptAdd(c)
    \/ \E c \in Sequential : AddAttemptSave(c)
    \/ \E c \in Sequential : AddAttemptProvider(c)
    \/ \E c \in Sequential : StartSessionSave(c)
    \/ \E c \in Sequential : StartSessionDispatch(c)
    \/ \E c \in Sequential : EndSessionGet(c)
    \/ \E c \in Sequential : EndSessionEnd(c)
    \/ \E c \in Sequential : EndSessionSave(c)
    \/ \E c \in Sequential : EndSessionDispatch(c)
    \/ \E c \in Sequential : EndSessionDelete(c)
    \/ \E c \in Sequential : StartBattleProvider(c)
    \/ \E c \in Sequential : StartBattleSave(c)
    \/ \E c \in Sequential : CreateGroupProvider(c)
    \/ \E c \in Sequential : CreateGroupSave(c)
    \/ \E c \in Sequential : Submit(c)
    \/ \E c \in Sequential : CallReturn(c)

\* the aggregates alone, no service running
InitDomain ==
    /\ botWired = [producer |-> TRUE, notifier |-> TRUE]
    /\ InitBotVars /\ InitTourn /\ InitSess /\ InitCalls /\ InitCmd /\ InitAgg
    /\ InitEntNone

vars == <<botVars, tournVars, sessVars, call, calls, cmdVars, aggVars>>

SpecBot == InitBot /\ [][NextBot]_vars

SpecTourn == Init /\ [][NextTourn]_vars

SpecSession == Init /\ [][NextSession]_vars

SpecSync == Init /\ [][NextSync]_vars

SpecRetry == InitRetry /\ [][NextRetry]_vars

SpecCmd == Init /\ [][NextCmd]_vars

SpecSeq == Init /\ [][NextSeq]_vars

SpecAgg == InitDomain /\ [][NextAgg]_vars

SpecStore == Init /\ [][NextStore]_vars

\* the constructor of the Tournament aggregate over its arguments
InitConstructor ==
    /\ botWired = [producer |-> TRUE, notifier |-> TRUE]
    /\ InitBotVars /\ InitTourn /\ InitSess /\ InitCalls /\ InitCmd /\ InitNew
    /\ InitEntNone

SpecNew == InitConstructor /\ [][AggNewTournament]_vars

\* the other aggregates alone, and the auth service over the player repository
InitEntities ==
    /\ botWired = [producer |-> TRUE, notifier |-> TRUE]
    /\ InitBotVars /\ InitTourn /\ InitSess /\ InitCalls /\ InitCmd /\ InitAggNone
    /\ InitEnt

SpecEnt == InitEntities /\ [][NextEnt]_vars

----------------------------------------------------------------------------
(* Properties of the idempotent intake (SpecBot) *)

\* the command ids that were saved under an idempotency key
RecordsFor(key) == {id \in BotIds : <<key, id>> \in botSaved}

\* a call has its answer from ReserveCommand and the answer was an existing command
SawExisting(h) == h.seen # "none"

\* C1: over any interleaving of Handle calls with the same idempotency key,
\* Producer.Enqueue is invoked for at most one of them and at most one command
\* record exists for the key.
C1_AtMostOnePerKey ==
    \A key \in BotKeys :
        /\ botEnq[key] <= 1
        /\ Cardinality(RecordsFor(key)) <= 1

C1_Witness ==
    /\ botEnq["k1"] = 1
    /\ \E c \in Callers :
         /\ handle[c].pc = "done"
         /\ handle[c].IdempotencyKey = "k1"
         /\ handle[c].err = ErrDuplicate

\* C2 (as claimed): a Handle call that starts after a call with the same key
\* returned Accepted=true also returns Accepted=true, and exactly one command
\* record exists for the key.
C2_SecondCallAccepted ==
    \A c \in Callers :
        (handle[c].pc = "done" /\ handle[c].afterAccepted /\ handle[c].path # "error")
            => /\ handle[c].Accepted
               /\ Cardinality(RecordsFor(handle[c].IdempotencyKey)) = 1

\* C2 (amended): a Handle call that starts after a call with the same key returned
\* Accepted=true returns Accepted=true exactly when the stored command has reached
\* state completed, and ErrDuplicate while it is pending or failed; either way it
\* saves nothing and exactly one command record exists for the key.
C2_SecondCallFollowsState ==
    \A c \in Callers :
        (handle[c].pc = "done" /\ handle[c].afterAccepted /\ handle[c].path # "error")
            => /\ handle[c].Accepted <=> (handle[c].seen = CommandStateCompleted)
               /\ ~handle[c].Accepted => handle[c].err = ErrDuplicate
               /\ handle[c].nSave = 0
               /\ botStore[handle[c].IdempotencyKey] # NoCommand
               /\ Cardinality(RecordsFor(handle[c].IdempotencyKey)) = 1

C2_Witness ==
    \E c \in Callers :
        /\ handle[c].pc = "done"
        /\ handle[c].afterAccepted
        /\ handle[c].Accepted
        /\ handle[c].seen = CommandStateCompleted

\* C3: two Handle calls with the same key never both take the fresh-reservation
\* path; while one of them is on it and the command is pending, the other has
\* returned ErrDuplicate without saving or enqueueing.
C3_OneWinner ==
    \A c, d \in Callers :
        (c # d /\ handle[c].pc # "idle" /\ handle[d].pc # "idle"
              /\ handle[c].IdempotencyKey = handle[d].IdempotencyKey)
            => /\ ~(handle[c].path = "fresh" /\ handle[d].path = "fresh")
               /\ (handle[c].path = "fresh" /\ handle[d].seen = CommandStatePending)
                    => /\ handle[d].pc = "done"
                       /\ handle[d].err = ErrDuplicate
                       /\ ~handle[d].Accepted
                       /\ handle[d].nSave = 0
                       /\ handle[d].nEnq = 0

C3_Witness ==
    \E c, d \in Callers :
        /\ c # d
        /\ handle[c].path = "fresh"
        /\ handle[c].pc = "enqueue"
        /\ handle[d].IdempotencyKey = handle[c].IdempotencyKey
        /\ handle[d].pc = "done"
        /\ handle[d].err = ErrDuplicate

\* C4: when ReserveCommand returns an existing command, Handle calls none of Save,
\* Enqueue and Notify, and returns Accepted=true if the command is completed and
\* ErrDuplicate if it is pending or failed.
C4_ExistingShortCircuits ==
    \A c \in Callers :
        SawExisting(handle[c])
            => /\ handle[c].pc = "done"
               /\ handle[c].nSave = 0 /\ handle[c].nEnq = 0 /\ handle[c].nNotify = 0
               /\ handle[c].seen = CommandStateCompleted
                    => (handle[c].Accepted /\ handle[c].err = ErrNone)
               /\ handle[c].seen \in {CommandStatePending, CommandStateFailed}
                    => (~handle[c].Accepted /\ handle[c].err = ErrDuplicate)

C4_Witness ==
    \E c \in Callers :
        /\ handle[c].pc = "done"
        /\ handle[c].seen = CommandStateFailed
        /\ handle[c].err = ErrDuplicate

\* C5: when Handle returns an enqueue error, the record stored for the key is in
\* state failed with RetryCount = 1 and LastError the enqueue error's message.
C5_EnqueueErrorStoredFailed ==
    \A c \in Callers :
        (handle[c].pc = "done" /\ handle[c].enqErr # ErrNone)
            => /\ handle[c].err = handle[c].enqErr
               /\ ~handle[c].Accepted
               /\ botStore[handle[c].IdempotencyKey].State = CommandStateFailed
               /\ botStore[handle[c].IdempotencyKey].RetryCount = 1
               /\ botStore[handle[c].IdempotencyKey].LastError = handle[c].enqErr

\* C6: once a Handle call has returned, a key the call reserved (ReserveCommand
\* answered NotFound) has a command record persisted for it.
C6_ReservedImpliesPersisted ==
    \A c \in Callers :
        (handle[c].pc = "done" /\ handle[c].path = "fresh")
            => botStore[handle[c].IdempotencyKey] # NoCommand

----------------------------------------------------------------------------
(* Properties of persist-then-sync (SpecSync, SpecTourn, SpecSession) *)

PersistThenSyncOps == {"CreateTournament", "AddAttempt", "StartSession", "EndSession"}

ProviderFailed(h) == h.provRes \in {"failed", "cancelled"}

\* C7: in CreateTournament, AddAttempt, StartSession and EndSession the provider
\* or dispatcher is called only after the Save of the same call succeeded; if
\* Save fails the call returns that error and makes no provider or dispatcher call.
C7_SyncOnlyAfterSave ==
    \A c \in Callers :
        call[c].op \in PersistThenSyncOps
            => /\ call[c].nProv > 0 => call[c].saveRes = "ok"
               /\ call[c].pc \in {"provider", "dispatch"} => call[c].saveRes = "ok"
               /\ call[c].saveRes = "err"
                    => /\ call[c].pc = "done"
                       /\ call[c].err = ErrRepo
                       /\ call[c].nProv = 0

C7_Witness ==
    \E c, d \in Callers :
        /\ call[c].op = "AddAttempt" /\ call[c].pc = "done" /\ call[c].saveRes = "err"
        /\ call[d].op = "StartSession" /\ call[d].saveRes = "ok" /\ call[d].nProv = 1

\* C8: if the provider call fails, or the context is cancelled, after a successful
\* Save in CreateTournament or AddAttempt, the call returns the provider's error
\* and the aggregate stays stored in its new state (no rollback).
C8_NoRollback ==
    \A c \in Callers :
        (call[c].pc = "done" /\ call[c].alone /\ call[c].saveRes = "ok"
              /\ ProviderFailed(call[c]))
            => /\ call[c].err = (IF call[c].provRes = "failed" THEN ErrProvider
                                 ELSE ErrCancelled)
               /\ call[c].op = "CreateTournament"
                    => tRepo[call[c].tid] = NewTournament(call[c].cmd, call[c].now)[1]
               /\ call[c].op = "AddAttempt"
                    => /\ pRepo[<<call[c].tid, call[c].pid>>] # 0
                       /\ pHeap[pRepo[<<call[c].tid, call[c].pid>>]].Attempts
                             = call[c].pre + call[c].count

C8_Witness ==
    \E c \in Callers :
        /\ call[c].pc = "done" /\ call[c].alone
        /\ call[c].op = "AddAttempt"
        /\ call[c].saveRes = "ok"
        /\ call[c].provRes = "cancelled"
        /\ call[c].pre > 0

\* C9: DeleteTournament calls Provider.DeleteTournament before Repo.Delete; if the
\* provider delete fails, Repo.Delete is not called and the stored tournament is
\* unchanged; if the tournament id is blank neither is called.
C9_ProviderDeleteFirst ==
    \A c \in Callers :
        call[c].op = "DeleteTournament"
            => /\ (call[c].nRepo > 0 \/ call[c].pc = "repoDelete")
                    => (call[c].nProv = 1 /\ call[c].provRes = "ok")
               /\ (call[c].pc = "done" /\ ProviderFailed(call[c]))
                    => /\ call[c].nRepo = 0
                       /\ call[c].err \in {ErrProvider, ErrCancelled}
                       /\ call[c].alone => tRepo[call[c].tid] = call[c].pre
               /\ Blank(call[c].tid)
                    => (call[c].pc = "done" /\ call[c].nRepo = 0 /\ call[c].nProv = 0)

C9_Witness ==
    \E c \in Callers :
        /\ call[c].op = "DeleteTournament"
        /\ call[c].pc = "done"
        /\ call[c].provRes = "failed"
        /\ call[c].pre # NoTournament
        /\ tRepo[call[c].tid] = call[c].pre

\* C10: once EndSession has persisted the ended session and returned, no session
\* record for the user remains, whether or not the dispatch succeeded.
C10_EndSessionAlwaysDeletes ==
    \A c \in Callers :
        (call[c].pc = "done" /\ call[c].op = "EndSession" /\ call[c].alone
              /\ call[c].saveRes = "ok")
            => sRepo[call[c].user] = 0

----------------------------------------------------------------------------
(* Properties of the analytics sessions (SpecSession) *)

\* C11: StartSession on valid input saves an active session and then dispatches
\* exactly one batch of exactly two events, an identify event followed by a
\* 'start' track event; if the dispatch fails it returns ErrDispatchFailed, which
\* is none of the validation and Save errors, and the session remains saved.
C11_StartSessionBatch ==
    \A c \in Callers :
        (call[c].op = "StartSession" /\ call[c].pc = "done" /\ call[c].saveRes = "ok")
            => /\ call[c].nProv = 1
               /\ Len(call[c].batches) = 1
               /\ Len(call[c].batches[1]) = 2
               /\ call[c].batches[1][1].Type = EventTypeIdentify
               /\ call[c].batches[1][2].Type = EventTypeTrack
               /\ call[c].batches[1][2].Name = EventNameStart
               /\ \A i \in 1..2 : call[c].batches[1][i].UserID = call[c].user
               /\ call[c].provRes = "ok" => call[c].err = ErrNone
               /\ call[c].provRes # "ok"
                    => /\ call[c].err = ErrDispatchFailed
                       /\ ErrDispatchFailed \notin {ErrPlayerID, ErrInvalidEvent, ErrVersion,
                                                    ErrStartTime, ErrRepo}
               /\ call[c].alone
                    => /\ sRepo[call[c].user] # 0
                       /\ sHeap[sRepo[call[c].user]]
                             = NewSession(call[c].user, call[c].version, call[c].now)[1]
                       /\ sHeap[sRepo[call[c].user]].State = SessionStateActive

C11_Witness ==
    \E c \in Callers :
        /\ call[c].op = "StartSession" /\ call[c].pc = "done"
        /\ call[c].saveRes = "ok" /\ call[c].provRes = "failed"
        /\ call[c].err = ErrDispatchFailed
        /\ call[c].alone
        /\ sRepo[call[c].user] # 0

----------------------------------------------------------------------------
(* Properties of the Tournament and Participant aggregates (SpecAgg) *)

LegalEdges == {<<StateActive, StateEnded>>, <<StateActive, StateReset>>,
               <<StateEnded, StateReset>>}

\* C12: over any sequence of End and Reset calls the only state changes are
\* active->ended, active->reset and ended->reset; End on an ended tournament and
\* End or Reset on a reset tournament return an error and leave State unchanged.
C12_OnlyLegalEdges ==
    last.op \in {"End", "Reset"}
        => /\ tourn.State # last.pre.State
                => <<last.pre.State, tourn.State>> \in LegalEdges
           /\ (\/ last.op = "End" /\ last.pre.State \in {StateEnded, StateReset}
               \/ last.op = "Reset" /\ last.pre.State = StateReset)
                => (last.err # ErrNone /\ tourn.State = last.pre.State)

\* C13: End on an ended tournament returns ErrTournamentAlreadyEnded and leaves
\* State, EndTime and UpdatedAt as the successful End set them; End with an end
\* time before StartTime returns an error and leaves the tournament unchanged.
C13_EndTwiceRejected ==
    /\ tourn.State = StateEnded
          => (tourn.EndTime # 0 /\ tourn.UpdatedAt = tourn.EndTime
                /\ tourn.EndTime >= tourn.StartTime)
    /\ (last.op = "End" /\ last.pre.State = StateEnded)
          => (last.err = ErrTournamentAlreadyEnded /\ tourn = last.pre)
    /\ (last.op = "End" /\ last.pre.State = StateActive /\ last.at < last.pre.StartTime)
          => (last.err = ErrEndTime /\ tourn = last.pre /\ tourn.State = StateActive)

C13_Witness ==
    /\ last.op = "End"
    /\ last.pre.State = StateEnded
    /\ last.err = ErrTournamentAlreadyEnded
    /\ last.at # last.pre.EndTime
    /\ tourn.EndTime = last.pre.EndTime

----------------------------------------------------------------------------
(* Properties of command validation (SpecSeq, SpecBot, SpecCmd) *)

\* a command that fails structural validation
StructurallyInvalid(h) ==
    CASE h.op = "CreateTournament" ->
            \/ Blank(h.cmd.ID) \/ h.cmd.Title = "" \/ h.cmd.Category < 0
            \/ h.cmd.MaxSize < 0 \/ h.cmd.MaxNumScore < 0 \/ h.cmd.StartTime = 0
            \/ h.cmd.Duration < 0
      [] h.op = "DeleteTournament" -> Blank(h.tid)
      [] h.op = "AddAttempt" -> Blank(h.tid) \/ Blank(h.pid) \/ h.count <= 0
      [] h.op = "StartBattle" -> Blank(h.cmd.LeaderID) \/ Blank(h.cmd.IdempotencyKey)
      [] h.op = "StartSession" -> Blank(h.user) \/ h.version = ""
      [] h.op = "EndSession" -> Blank(h.user)
      [] h.op = "Submit" ->
            \/ Blank(h.cmd.PlayerID) \/ Blank(h.cmd.SeasonID)
            \/ Blank(h.cmd.IdempotencyKey)
      [] OTHER -> FALSE

\* C14: in CreateTournament, DeleteTournament, AddAttempt, StartBattle,
\* StartSession, EndSession and Submit a command that fails structural validation
\* returns an error without any repository, provider or dispatcher call.
C14_InvalidCommandNoCalls ==
    \A c \in Callers :
        StructurallyInvalid(call[c])
            => /\ call[c].pc = "done"
               /\ call[c].err # ErrNone
               /\ call[c].nRepo = 0 /\ call[c].nGet = 0 /\ call[c].nProv = 0
               /\ call[c].saveRes = "none" /\ call[c].provRes = "none"

C14_Witness ==
    \E c \in Callers :
        /\ call[c].op = "StartBattle"
        /\ call[c].pc = "done"
        /\ ~Blank(call[c].cmd.LeaderID) /\ Blank(call[c].cmd.IdempotencyKey)
        /\ call[c].err = ErrIdempotencyKey
        /\ provMatches # <<>>

\* C15: Handle validates before touching the store: a command with a blank
\* command id or a blank idempotency key returns a validation error without
\* ReserveCommand, Save or Enqueue having been called, so the call reserves no key.
C15_HandleValidatesFirst ==
    \A c \in Callers :
        (handle[c].pc # "idle"
              /\ (Blank(handle[c].CommandID) \/ Blank(handle[c].IdempotencyKey)))
            => /\ handle[c].pc = "done"
               /\ handle[c].err \in {ErrBotCommandID, ErrIdempotencyKey}
               /\ handle[c].path = "none"
               /\ handle[c].nSave = 0 /\ handle[c].nEnq = 0

\* C16: CreateGroup validates before any external effect: a command with a blank
\* creator id or an empty group name returns a validation error without
\* Provider.CreateGroup or Repo.Save having been called.
C16_CreateGroupValidatesFirst ==
    \A c \in Callers :
        (call[c].op = "CreateGroup"
              /\ (Blank(call[c].cmd.CreatorID) \/ call[c].cmd.Name = ""))
            => /\ call[c].pc = "done"
               /\ call[c].err \in {ErrPlayerID, ErrNameRequired}
               /\ call[c].nProv = 0 /\ call[c].nRepo = 0
               /\ <<call[c].cmd.Name, call[c].cmd.CreatorID>> \notin provGroups

----------------------------------------------------------------------------
(* Properties of AddAttempt and the repositories' aliasing (SpecTourn, SpecSession) *)

\* the participant the repository holds for the key of call h
StoredParticipant(h) == pHeap[pRepo[<<h.tid, h.pid>>]]

\* C17: with a repository that retains saved participants, AddAttempt for a pair
\* without a participant creates one whose stored Attempts is the count, and every
\* further successful AddAttempt increases the stored Attempts by exactly its
\* count: repeated delivery is additive.
C17_AddAttemptAdditive ==
    \A c \in Callers :
        (call[c].op = "AddAttempt" /\ call[c].pc \in {"provider", "done"}
              /\ call[c].saveRes = "ok" /\ call[c].alone)
            => /\ pRepo[<<call[c].tid, call[c].pid>>] # 0
               /\ StoredParticipant(call[c]).Attempts = call[c].pre + call[c].count
               /\ StoredParticipant(call[c]).Attempts > call[c].pre
               /\ StoredParticipant(call[c]).UpdatedAt = call[c].now

C17_Witness ==
    \E c \in Callers :
        /\ call[c].op = "AddAttempt" /\ call[c].pc = "done"
        /\ call[c].err = ErrNone /\ call[c].alone
        /\ call[c].pre = call[c].count
        /\ StoredParticipant(call[c]).Attempts = 2 * call[c].count

\* C18: two concurrent AddAttempt calls on the same (tournament, player) with
\* counts a and b end with stored Attempts = initial + a + b (no lost update),
\* also when the participant does not exist before either call.
C18_NoLostUpdate ==
    \A c, d \in Callers :
        (/\ c # d
         /\ call[c].op = "AddAttempt" /\ call[d].op = "AddAttempt"
         /\ call[c].pc = "done" /\ call[d].pc = "done"
         /\ call[c].err = ErrNone /\ call[d].err = ErrNone
         /\ call[c].tid = call[d].tid /\ call[c].pid = call[d].pid
         /\ call[c].pre = call[d].pre)
            => StoredParticipant(call[c]).Attempts
                  = call[c].pre + call[c].count + call[d].count

\* C19: an aggregate returned by a repository Get is a private copy: mutating it
\* inside a service call (AddAttempts in AddAttempt, End in EndSession) does not
\* change what the repository holds until Save succeeds (here: when the call has
\* mutated the aggregate and has not called Save yet).
C19_GetReturnsPrivateCopy ==
    \A c \in Callers :
        (call[c].pc = "save" /\ call[c].alone)
            => /\ (call[c].op = "AddAttempt" /\ pRepo[<<call[c].tid, call[c].pid>>] # 0)
                    => StoredParticipant(call[c]).Attempts = call[c].pre
               /\ (call[c].op = "EndSession" /\ sRepo[call[c].user] # 0)
                    => sHeap[sRepo[call[c].user]].State = SessionStateActive

\* C20: a new participant has Attempts = 0; AddAttempts(n) with n <= 0 returns an
\* error and leaves Attempts and UpdatedAt unchanged; AddAttempts(n) with n > 0
\* increases Attempts by exactly n; ResetAttempts sets Attempts to 0; Attempts >= 0
\* in every reachable state.
C20_AttemptsInvariant ==
    /\ part.Attempts >= 0
    /\ last.op = "none" => part.Attempts = 0
    /\ (last.op = "AddAttempts" /\ last.arg <= 0)
          => (last.err # ErrNone /\ part.Attempts = last.pre.Attempts
                /\ part.UpdatedAt = last.pre.UpdatedAt)
    /\ (last.op = "AddAttempts" /\ last.arg > 0)
          => (last.err = ErrNone /\ part.Attempts = last.pre.Attempts + last.arg
                /\ part.UpdatedAt = last.at)
    /\ last.op = "ResetAttempts" => (part.Attempts = 0 /\ part.UpdatedAt = last.at)

C20_Witness ==
    /\ last.op = "AddAttempts"
    /\ last.arg < 0
    /\ last.pre.Attempts > 0
    /\ last.at # last.pre.UpdatedAt
    /\ part = last.pre

----------------------------------------------------------------------------
(* Properties of the Battle, Session, Command, Group and PlayerAccount     *)
(* aggregates (SpecEnt)                                                    *)

C22_SessionEndTerminal ==
    (sess # NoSession /\ last.op = "End") =>
      IF last.pre.State = SessionStateEnded \/ last.at < last.pre.StartedAt
      THEN /\ last.err # ErrNone
           /\ sess.State = last.pre.State
           /\ sess.EndedAt = last.pre.EndedAt
      ELSE /\ last.err = ErrNone
           /\ sess.State = SessionStateEnded
           /\ sess.EndedAt = last.at
           /\ \A now \in Times : Duration(sess, now) = last.at - sess.StartedAt

\* a session that lasted some time is ended again, at another instant
C22_Witness ==
    /\ sess # NoSession
    /\ last.op = "End"
    /\ last.pre.State = SessionStateEnded
    /\ last.at # last.pre.EndedAt
    /\ Duration(sess, last.at) > 0

\* the account operations that are not Reinstate
FrozenOps ==
    {"RegisterDevice", "RecordSession", "Suspend", "CanStartBattle",
     "AuthenticateDevice", "AuthenticateEmail"}

\* C23: while a PlayerAccount is suspended no operation changes its Devices or its
\* Sessions: RegisterDevice and CanStartBattle return ErrAccountSuspended,
\* RecordSession records nothing, and AuthenticateDevice / AuthenticateEmail for the
\* account save it with the devices and sessions it had.
C23_SuspendedFrozen ==
    (acct # NoAccount /\ last.op \in FrozenOps /\ last.pre # NoAccount
       /\ last.pre.Suspended) =>
      /\ acct.Devices = last.pre.Devices
      /\ acct.Sessions = last.pre.Sessions
      /\ last.op \in {"RegisterDevice", "CanStartBattle"} =>
            last.err = ErrAccountSuspended

\* the pairs <<state before, state after>> a MarkAttempt call may produce
MarkAttemptEdges ==
    {<<CommandStatePending, CommandStateCompleted>>,
     <<CommandStatePending, CommandStateFailed>>,
     <<CommandStateFailed, CommandStateCompleted>>,
     <<CommandStateFailed, CommandStateFailed>>,
     <<CommandStateCompleted, CommandStateCompleted>>}

\* C24: over any sequence of MarkAttempt calls the state never returns to pending,
\* the only changes are pending->completed, pending->failed, failed->completed and
\* failed->failed (a completed command stays completed), and RetryCount never
\* decreases: plus one on a failed attempt, unchanged on a successful one.
C24_MarkAttemptTransitions ==
    (command # NoCommand /\ last.op = "MarkAttempt") =>
      /\ command.State # CommandStatePending
      /\ <<last.pre.State, command.State>> \in MarkAttemptEdges
      /\ command.RetryCount >= last.pre.RetryCount
      /\ last.arg # ErrNone => command.RetryCount = last.pre.RetryCount + 1
      /\ last.arg = ErrNone => command.RetryCount = last.pre.RetryCount

----------------------------------------------------------------------------
(* Properties of the provider-first commands (SpecCmd) *)

\* C26: StartBattle calls Provider.CreateMatch only after the leader id and the
\* idempotency key validate and calls Repo.Save only after CreateMatch succeeded; the
\* saved battle carries the provider's battle id and the command's idempotency key
\* and has exactly one slot, the leader with Ready = true; if CreateMatch fails
\* nothing is saved.
C26_StartBattleOrder ==
    \A c \in Callers :
      LET h == call[c] IN
      h.op = "StartBattle" =>
        /\ h.nProv > 0 =>
              /\ PlayerIDValidate(h.cmd.LeaderID) = ErrNone
              /\ IdempotencyKeyValidate(h.cmd.IdempotencyKey) = ErrNone
        /\ h.nRepo > 0 => h.provRes = "ok"
        /\ h.provRes # "ok" => h.nRepo = 0 /\ h.saveRes = "none"
        /\ h.saveRes = "ok" =>
              /\ bRepo[h.extId].ID = h.extId
              /\ bRepo[h.extId].IdempotencyKey = h.cmd.IdempotencyKey
              /\ bRepo[h.extId].Leader = h.cmd.LeaderID
              /\ Len(bRepo[h.extId].Slots) = 1
              /\ bRepo[h.extId].Slots[1].PlayerID = h.cmd.LeaderID
              /\ bRepo[h.extId].Slots[1].Ready

\* one StartBattle saved its battle and another stopped at a failed CreateMatch
C26_Witness ==
    \E c, d \in Callers :
      /\ call[c].op = "StartBattle" /\ call[c].saveRes = "ok"
      /\ bRepo[call[c].extId] # NoBattle
      /\ call[d].op = "StartBattle" /\ call[d].pc = "done"
      /\ call[d].provRes = "failed" /\ call[d].nProv = 1

\* C27: Submit calls Repo.SubmitScore once when player id, season id and idempotency
\* key are all non-blank and not at all otherwise; it answers Acknowledged=true (no
\* error) exactly when SubmitScore returned no error; and a Submit step changes
\* nothing but the leaderboard repository (the service keeps no state of its own).
C27_SubmitForwards ==
    /\ [](\A c \in Callers :
           LET h == call[c]
               valid == ~Blank(h.cmd.PlayerID) /\ ~Blank(h.cmd.SeasonID)
                        /\ ~Blank(h.cmd.IdempotencyKey)
           IN h.op = "Submit" =>
                /\ h.pc = "done"
                /\ h.nRepo = IF valid THEN 1 ELSE 0
                /\ (h.err = ErrNone) <=> (h.nRepo = 1 /\ h.saveRes = "ok")
                /\ h.saveRes = "ok" => h.cmd \in lbRepo)
    /\ [][(\E c \in Callers : call'[c].op = "Submit" /\ call[c].pc = "idle")
            => UNCHANGED <<provMatches, bRepo, provGroups, gRepo, botVars, tournVars,
                           sessVars, aggVars>>]_vars

\* one Submit was acknowledged and another was refused by the repository
C27_Witness ==
    \E c, d \in Callers :
      /\ call[c].op = "Submit" /\ call[c].err = ErrNone /\ call[c].cmd \in lbRepo
      /\ call[d].op = "Submit" /\ call[d].saveRes = "err" /\ call[d].err = ErrRepo

----------------------------------------------------------------------------
(* Properties of the Tournament constructor (SpecNew) *)

\* C28: NewTournament returns either an error and no tournament, or a tournament
\* with State = active, CreatedAt = UpdatedAt = now and, when Duration > 0,
\* CalculateEndTime() = StartTime + Duration; it fails exactly when the id is blank,
\* the title is blank, category, max-size or max-score-count is negative, the start
\* time is zero, or the duration is negative.
C28_NewTournamentContract ==
    last.op = "NewTournament" =>
      LET cmd == last.arg
          invalid == \/ Blank(cmd.ID) \/ Blank(cmd.Title)
                     \/ cmd.Category < 0 \/ cmd.MaxSize < 0 \/ cmd.MaxNumScore < 0
                     \/ cmd.StartTime = 0 \/ cmd.Duration < 0
      IN /\ (last.err # ErrNone) <=> invalid
         /\ last.err # ErrNone => tourn = NoTournament
         /\ last.err = ErrNone =>
               /\ tourn # NoTournament
               /\ tourn.State = StateActive
               /\ tourn.CreatedAt = last.at
               /\ tourn.UpdatedAt = last.at
               /\ tourn.Duration > 0 =>
                     CalculateEndTime(tourn) = tourn.StartTime + tourn.Duration

----------------------------------------------------------------------------
(* Properties of CreateTournament against the provider and the store       *)
(* (SpecSeq, SpecStore)                                                    *)

\* C29: after a successful CreateTournament the parameters sent to the provider and
\* the locally saved aggregate agree on id, title, description, category, sort order,
\* operator, reset schedule, the authoritative and join-required flags, max-size,
\* max-score-count, the start time (as Unix seconds), the optional end time and the
\* duration (as seconds).
C29_ProviderMatchesLocal ==
    \A c \in Sequential :
      LET h == call[c]
          t == tRepo[h.tid]
          params == provTourn[h.tid]
      IN (h.op = "CreateTournament" /\ h.pc = "done" /\ h.err = ErrNone) =>
           /\ t # NoTournament
           /\ params # NoParams
           /\ params.ID = t.ID
           /\ params.Title = t.Title
           /\ params.Description = t.Description
           /\ params.Category = t.Category
           /\ params.SortOrder = t.SortOrder
           /\ params.Operator = t.Operator
           /\ params.ResetSchedule = t.ResetSchedule
           /\ params.Authoritative = t.Authoritative
           /\ params.JoinRequired = t.JoinRequired
           /\ params.MaxSize = t.MaxSize
           /\ params.MaxNumScore = t.MaxNumScore
           /\ params.StartTime = Unix(t.StartTime)
           /\ params.Duration = Seconds(t.Duration)
           /\ params.EndTime = IF t.EndTime # 0 THEN Unix(t.EndTime) ELSE 0

\* C30: a tournament record is created once: CreateTournament for an id that is
\* already stored keeps the stored State, EndTime and CreatedAt, and no step of the
\* service or of the aggregate takes a stored tournament from ended or reset back
\* to active.
C30_CreatedOnce ==
    [][\A id \in TournIds :
         (tRepo[id] # NoTournament /\ tRepo'[id] # NoTournament) =>
           /\ (\E c \in Callers :
                  call[c].pc = "idle" /\ call'[c].op = "CreateTournament") =>
                 /\ tRepo'[id].State = tRepo[id].State
                 /\ tRepo'[id].EndTime = tRepo[id].EndTime
                 /\ tRepo'[id].CreatedAt = tRepo[id].CreatedAt
           /\ ~(tRepo[id].State \in {StateEnded, StateReset}
                /\ tRepo'[id].State = StateActive)]_vars

\* C31: the aggregate mutators are functions of the receiver and their explicit
\* arguments: the state a call leaves is the state the same call on the same receiver
\* leaves under every other reading of the wall clock (RegisterDevice, RecordSession,
\* Suspend, Reinstate, UpdateSnapshot; AddPlayer takes its time as an argument).
C31_MutatorsDeterministic ==
    \A wall \in Times :
      /\ last.op = "RegisterDevice" => acct = RegisterDevice(last.pre, last.arg, wall)[1]
      /\ last.op = "RecordSession" => acct = RecordSession(last.pre, last.arg, wall)
      /\ last.op = "Suspend" => acct = Suspend(last.pre, last.arg, wall)
      /\ last.op = "Reinstate" => acct = Reinstate(last.pre, wall)
      /\ last.op = "UpdateSnapshot" => battle = UpdateSnapshot(last.pre, last.arg, wall)
      /\ last.op = "AddPlayer" => battle = AddPlayer(last.pre, last.arg, last.at)[1]

\* C32: on a fresh reservation Producer.Enqueue is called only after Repo.Save of the
\* pending command has succeeded; when that Save fails Handle returns the Save error
\* with Enqueue and Notify never called.
C32_EnqueueAfterSave ==
    /\ [](\A c \in Callers :
            /\ handle[c].nEnq > 0 => (handle[c].savedOk /\ handle[c].path = "fresh")
            /\ (handle[c].nSave > 0 /\ ~handle[c].savedOk) =>
                  /\ handle[c].pc = "done"
                  /\ handle[c].nEnq = 0 /\ handle[c].nNotify = 0
                  /\ handle[c].err = ErrRepo /\ ~handle[c].Accepted)
    /\ [][\A c \in Callers :
            handle'[c].nEnq > handle[c].nEnq =>
              /\ handle[c].savedOk /\ handle[c].nSave = 1
              /\ handle[c].cmd.State = CommandStatePending]_vars

\* a Handle call on a fresh reservation saved the pending command and then enqueued it
C32_Witness ==
    \E c \in Callers :
      /\ handle[c].path = "fresh" /\ handle[c].savedOk /\ handle[c].nSave = 1
      /\ handle[c].nEnq = 1 /\ handle[c].IdempotencyKey \in botQueue

\* the parts of C33 that do not depend on the Producer: at most one Notify per call,
\* only on a fresh reservation with the command saved, no Enqueue error and a
\* non-empty PlayerID; a Notify error leaves Accepted = true and err = nil
NotifyGuarded(h) ==
    /\ h.nNotify <= 1
    /\ h.nNotify = 1 =>
          /\ h.path = "fresh" /\ h.savedOk /\ h.enqErr = ErrNone
          /\ h.PlayerID # ""
    /\ h.notifyErr # ErrNone => (h.nNotify = 1 /\ h.Accepted /\ h.err = ErrNone)

\* the Notify step writes nothing to the command store
NotifyKeepsStore ==
    \A c \in Callers :
      handle'[c].nNotify > handle[c].nNotify =>
        /\ botStore' = botStore
        /\ handle'[c].pc = "done" /\ handle'[c].Accepted

C34_StartBattleNoDedupe ==
    /\ [](\A c \in Callers :
            (/\ call[c].op = "StartBattle"
             /\ PlayerIDValidate(call[c].cmd.LeaderID) = ErrNone
             /\ IdempotencyKeyValidate(call[c].cmd.IdempotencyKey) = ErrNone)
              => call[c].nProv = 1)
    /\ [](\A c, d \in Callers :
            (/\ c # d
             /\ call[c].op = "StartBattle" /\ call[d].op = "StartBattle"
             /\ call[c].cmd.IdempotencyKey = call[d].cmd.IdempotencyKey
             /\ call[c].saveRes = "ok" /\ call[d].saveRes = "ok"
             /\ call[c].extId # call[d].extId)
              => /\ Len(provMatches) >= 2
                 /\ bRepo[call[c].extId].IdempotencyKey = call[c].cmd.IdempotencyKey
                 /\ bRepo[call[d].extId].IdempotencyKey = call[c].cmd.IdempotencyKey)
    /\ [][\A c \in Callers :
            (call[c].pc = "idle" /\ call'[c].op = "StartBattle" /\ call'[c].nProv = 1)
              => Len(provMatches') =
                   Len(provMatches) + (IF call'[c].provRes = "ok" THEN 1 ELSE 0)]_vars

\* two StartBattle calls with one key: two external matches, two saved battles
C34_Witness ==
    \E c, d \in Callers :
      /\ call[c].op = "StartBattle" /\ call[d].op = "StartBattle"
      /\ call[c].cmd.IdempotencyKey = call[d].cmd.IdempotencyKey
      /\ call[c].saveRes = "ok" /\ call[d].saveRes = "ok"
      /\ call[c].extId # call[d].extId
      /\ Len(provMatches) = 2
      /\ bRepo[call[c].extId] # NoBattle /\ bRepo[call[d].extId] # NoBattle
      /\ bRepo[call[c].extId].IdempotencyKey = bRepo[call[d].extId].IdempotencyKey

\* C35: a failed intake can be retried: a Handle call that finds the record of its key
\* stored as failed by an earlier Enqueue error (and meets no repository error)
\* enqueues the command and returns Accepted = true.
C35_FailedIntakeRetried ==
    \A c \in Callers :
      (/\ handle[c].pc = "done" /\ handle[c].path # "error"
       /\ handle[c].seen = CommandStateFailed
       /\ botStore[handle[c].IdempotencyKey].LastError = ErrQueue)
        => /\ handle[c].Accepted /\ handle[c].err = ErrNone
           /\ handle[c].nEnq = 1
           /\ handle[c].IdempotencyKey \in botQueue

\* C36: after an EndSession that returned ErrDispatchFailed, a later EndSession for
\* the same user that meets no repository error returns nil and leaves no session
\* record for the user.
C36_EndSessionRetried ==
    \A c, d \in Callers :
      (/\ c # d
       /\ call[d].op = "EndSession" /\ call[d].pc = "done"
       /\ call[d].err = ErrDispatchFailed
       /\ call[c].op = "EndSession" /\ call[c].pc = "done" /\ call[c].alone
       /\ call[c].user = call[d].user
       /\ call[c].obj # 0 /\ call[c].pre = SessionStateEnded
       /\ call[c].err # ErrRepo)
        => /\ call[c].err = ErrNone
           /\ sRepo[call[c].user] = 0

\* C37: every participant in the participant repository belongs to a tournament that
\* is in the tournament repository.
C37_ParticipantsHaveTournament ==
    \A k \in PKeys :
      pRepo[k] # 0 => tRepo[pHeap[pRepo[k]].TournamentID] # NoTournament

C39_GroupKeepsOwner ==
    group # NoGroup => \E m \in group.Members : m.Role = RoleOwner

\* C40: a first device login (the provider authenticated a user id for which the
\* repository holds no account, and the repository fails neither GetByID nor Save)
\* returns the provider's result with an account for that user id saved, the device
\* registered and one session recorded; after a provider error the repository is
\* left as it was.
C40_FirstDeviceLogin ==
    last.op = "AuthenticateDevice" =>
      /\ (/\ last.at # 0 /\ last.pre = NoAccount /\ last.err # ErrRepo
          /\ PlayerIDValidate(last.arg.user) = ErrNone)
           => /\ last.err = ErrNone
              /\ acct # NoAccount
              /\ acct.ID = last.arg.user
              /\ \E d \in acct.Devices : d.ID = last.arg.deviceID
              /\ Len(acct.Sessions) = 1
              /\ acct.Sessions[1].SessionID = last.arg.token
      /\ last.err \in {ProviderError(o) : o \in ProviderOutcomes \ {"ok"}}
           => (acct = last.pre /\ last.at = 0)

====
